---- MODULE Spec2Model ----
(***************************************************************************)
(* Verification model of home-agent's core mechanisms:                     *)
(*   - sliding_window_processor   (src/home_agent/history.py)              *)
(*   - RetryingModel              (src/home_agent/models/retry_model.py)   *)
(*   - ProfileManager, profile tools (src/home_agent/profile.py, db.py,    *)
(*     tools/profile_tools.py, agent.py)                                   *)
(* Each mechanism has its own specification (SpecWindow, SpecRetry,        *)
(* SpecProfile, SpecLoad); the variables of the other mechanisms are held  *)
(* at their idle values.                                                   *)
(***************************************************************************)
EXTENDS Integers, Sequences, FiniteSets, TLC

VARIABLES
    \* ---- sliding_window_processor ----
    messages,      \* the list[ModelMessage] handed to processor
    n,             \* the n captured by sliding_window_processor(n=...)
    result,        \* the list processor returned
    wpc,           \* "ready" before the call, "done" after it
    \* ---- RetryingModel ----
    max_retries,   \* self.max_retries
    base_delay,    \* self.base_delay
    max_delay,     \* self.max_delay
    on_retry,      \* self.on_retry: "none", or how the callback behaves
    attempt,       \* loop variable of request
    delay,         \* local variable delay of request
    rpc,           \* position inside request
    trace,         \* everything the current call did, in order
    ret,           \* how the call ended: returned value or raised exception
    inner_model,   \* self._inner_model: 0 is None, otherwise the Model object's identity
    infer_calls,   \* number of infer_model(...) invocations so far
    used_models,   \* identities of the models whose operations were invoked
    calls,         \* number of operations started on this RetryingModel
    \* ---- ProfileManager ----
    store,         \* the profiles table: user_id -> <<>> (no row) or <<data blob>>
    now,           \* what datetime.now(tz=utc) returns
    held,          \* deps.user_profile of the running turn: <<>> or <<profile>>
    last,          \* the last ProfileManager / tool operation and what it did
    ops,           \* number of profile operations performed so far
    saved,         \* user_id -> the profile handed to the latest save for it, or <<>>
    first,         \* user_id -> the profile get created for it, or <<>>
    allowed_telegram_ids,  \* config.allowed_telegram_ids: who may start a turn
    \* ---- handle_message ----
    turn,          \* per running handle_message call: its position and locals
    conversations, \* the conversations table, rows in id order
    pending_updates,   \* updates the transport has still to hand to handle_message
    committer,     \* user_id -> the turn whose profile write committed last, or 0
    stopped,       \* the process was stopped
    query          \* the last HistoryManager.get_history call and what it returned

windowVars == <<messages, n, result, wpc>>
lazyVars == <<inner_model, infer_calls, used_models, calls>>
retryVars == <<max_retries, base_delay, max_delay, on_retry, attempt, delay, rpc, trace, ret,
               inner_model, infer_calls, used_models, calls>>
profileVars == <<store, now, held, last, ops, saved, first, allowed_telegram_ids>>
driverVars == <<turn, conversations, pending_updates, committer, stopped, query>>
vars == <<messages, n, result, wpc,
          max_retries, base_delay, max_delay, on_retry, attempt, delay, rpc, trace, ret,
          inner_model, infer_calls, used_models, calls,
          store, now, held, last, ops, saved, first, allowed_telegram_ids,
          turn, conversations, pending_updates, committer, stopped, query>>

\* ------------------------------------------------------------------ bounds
MaxMsgs == 6          \* longest message list fed to processor
MaxKeep == 3          \* largest n
MaxRetries == 3       \* largest max_retries
MaxBaseDelay == 3     \* largest base_delay (time units)
MaxMaxDelay == 4      \* largest max_delay (time units)
MaxCalls == 2         \* operations started on one RetryingModel
MaxTime == 2          \* last value of the clock
MaxStoredTime == 1    \* latest timestamp found in a record stored before the run
MaxOps == 3           \* profile operations in one behaviour
MaxNotes == 1         \* notes appended to one profile
MaxTools == 1         \* tool calls the model makes in one agent run
MaxLength == 2        \* max_length of _split_message, scaled down
MaxRows == 3          \* rows in the conversations table of the history runs
MaxLimit == 3         \* largest limit passed to get_history

Min(a, b) == IF a <= b THEN a ELSE b
Max(a, b) == IF a >= b THEN a ELSE b

(***************************************************************************)
(*                      sliding_window_processor                           *)
(***************************************************************************)

\* A ModelMessage is a ModelRequest or a ModelResponse.  `tool` tells whether
\* its parts hold a tool call / tool return; `id` is the object's identity.
Kinds == {"request", "response"}

IsRequest(msg) == msg.kind = "request"
IsResponse(msg) == msg.kind = "response"

MessageLists ==
    UNION { { [i \in 1..len |-> [kind |-> k[i], tool |-> t[i], id |-> i]] :
                k \in [1..len -> Kinds], t \in [1..len -> BOOLEAN] } :
            len \in 0..MaxMsgs }

\* Python's seq[start:] for any integer start.
PySliceFrom(seq, start) ==
    LET len == Len(seq)
        from == IF start < 0 THEN Max(len + start, 0) ELSE Min(start, len)
    IN SubSeq(seq, from + 1, len)

\* Faulty variant: only the unpaired request itself is kept as the tail.
TailOneRequest(msgs, i) == <<msgs[i]>>

\* Faulty variant: the tail starts after the unpaired request (messages[i + 1:]).
TailAfter(msgs, i) == SubSeq(msgs, i + 1, Len(msgs))

\* tail = list(messages[i:]) at 1-based position i.
TailFrom(msgs, i) == SubSeq(msgs, i, Len(msgs))

\* Faulty variant: a response with no request before it is not skipped but starts the tail.
RECURSIVE ScanLoopOrphanTail(_, _, _)
ScanLoopOrphanTail(msgs, i, pairs) ==
    IF i > Len(msgs) THEN [pairs |-> pairs, tail |-> <<>>]
    ELSE IF IsRequest(msgs[i]) /\ i + 1 <= Len(msgs) /\ IsResponse(msgs[i + 1])
         THEN ScanLoopOrphanTail(msgs, i + 2, Append(pairs, <<msgs[i], msgs[i + 1]>>))
         ELSE [pairs |-> pairs, tail |-> TailFrom(msgs, i)]

\* The while loop of processor, from 1-based position i with `pairs` collected
\* so far; yields the final pairs and tail.
RECURSIVE ScanLoop(_, _, _)
ScanLoop(msgs, i, pairs) ==
    IF i > Len(msgs) THEN [pairs |-> pairs, tail |-> <<>>]
    ELSE IF IsRequest(msgs[i])
         THEN IF i + 1 <= Len(msgs) /\ IsResponse(msgs[i + 1])
              THEN ScanLoop(msgs, i + 2, Append(pairs, <<msgs[i], msgs[i + 1]>>))
              ELSE [pairs |-> pairs, tail |-> TailFrom(msgs, i)]
         ELSE ScanLoop(msgs, i + 1, pairs)

\* Faulty variant: the first n pairs are kept instead of the last n (pairs[:n]).
KeptPairsFirst(pairs, keep) ==
    IF keep < Len(pairs) THEN SubSeq(pairs, 1, keep) ELSE pairs

\* Faulty variant: the boundary is off by one (pairs[-(n - 1):] if n <= len(pairs)).
KeptPairsOffByOne(pairs, keep) ==
    IF keep <= Len(pairs) THEN PySliceFrom(pairs, 1 - keep) ELSE pairs

\* kept_pairs = pairs[-n:] if n < len(pairs) else pairs
KeptPairs(pairs, keep) ==
    IF keep < Len(pairs) THEN PySliceFrom(pairs, 0 - keep) ELSE pairs

\* for req, resp in kept_pairs: result.append(req); result.append(resp)
RECURSIVE Flatten(_)
Flatten(pairs) ==
    IF pairs = <<>> THEN <<>>
    ELSE <<Head(pairs)[1], Head(pairs)[2]>> \o Flatten(Tail(pairs))

\* Faulty variant: the window counts messages, not pairs (messages[-n:]).
processorByMessages(msgs, keep) ==
    IF keep < Len(msgs) THEN PySliceFrom(msgs, 0 - keep) ELSE msgs

processor(msgs, keep) ==
    LET scan == ScanLoop(msgs, 1, <<>>)
    IN Flatten(KeptPairs(scan.pairs, keep)) \o scan.tail

InitWindow ==
    /\ messages \in MessageLists
    /\ n \in 0..MaxKeep
    /\ result = <<>>
    /\ wpc = "ready"

WindowIdle ==
    /\ messages = <<>>
    /\ n = 0
    /\ result = <<>>
    /\ wpc = "idle"

\* One call processor(messages).
Processor ==
    /\ wpc = "ready"
    /\ result' = processor(messages, n)
    /\ wpc' = "done"
    /\ UNCHANGED <<messages, n>>
    /\ UNCHANGED retryVars
    /\ UNCHANGED profileVars
    /\ UNCHANGED driverVars

(***************************************************************************)
(*                        RetryingModel.request                            *)
(***************************************************************************)

\* What one call of inner.request can do: return a response, raise
\* ModelHTTPError with status 429 or another status, or raise another exception.
HttpErrors == {"http429", "http500"}
InnerFailures == HttpErrors \cup {"other"}
StatusCode(exc) == IF exc = "http429" THEN 429 ELSE 500

OnRetryKinds == {"none", "returns", "raises"}

NoRet == [kind |-> "none"]

\* self._inner_model = inner if isinstance(inner, Model) else None
NoModel == 0
GivenModel == 1

\* The object the j-th invocation of infer_model returns.
InferredModel(j) == 1 + j

\* Faulty variant: the resolved model is not cached, every access resolves again.
NeedsResolveAlways(m) == TRUE

\* if self._inner_model is None
NeedsResolve(m) == m = NoModel

\* Faulty variant: the callback gets a one-based attempt number.
OnRetryArgsOneBased(att, d) == [attempt |-> att + 1, delay |-> d]

\* self.on_retry(attempt, delay)
OnRetryArgs(att, d) == [attempt |-> att, delay |-> d]

InitRetry ==
    /\ max_retries \in (0 - 1)..MaxRetries
    /\ base_delay \in 1..MaxBaseDelay
    /\ max_delay \in 1..MaxMaxDelay
    /\ on_retry \in OnRetryKinds
    /\ attempt = 0
    /\ delay = 0
    /\ rpc = "idle"
    /\ trace = <<>>
    /\ ret = NoRet
    /\ inner_model \in {NoModel, GivenModel}
    /\ infer_calls = 0
    /\ used_models = {}
    /\ calls = 0

RetryIdle ==
    /\ max_retries = 0
    /\ base_delay = 0
    /\ max_delay = 0
    /\ on_retry = "none"
    /\ attempt = 0
    /\ delay = 0
    /\ rpc = "off"
    /\ trace = <<>>
    /\ ret = NoRet
    /\ inner_model = NoModel
    /\ infer_calls = 0
    /\ used_models = {}
    /\ calls = 0

\* range(self.max_retries + 1) still has a value for the loop variable.
InRange(att, maxr) == att < maxr + 1

\* Faulty variant: one retry too many (attempt > self.max_retries).
MustReraiseOffByOne(exc, att, maxr) == StatusCode(exc) # 429 \/ att > maxr

\* Faulty variant: every ModelHTTPError is retried, whatever its status code.
MustReraiseAnyStatus(exc, att, maxr) == att >= maxr

\* except ModelHTTPError: if exc.status_code != 429 or attempt >= self.max_retries: raise
MustReraise(exc, att, maxr) == StatusCode(exc) # 429 \/ att >= maxr

\* delay = min(delay * 2, self.max_delay)
NextDelay(d, cap) == Min(d * 2, cap)

\* delay = self.base_delay; the for loop starts at attempt 0.
RequestStart ==
    /\ rpc = "idle"
    /\ delay' = base_delay
    /\ attempt' = 0
    /\ rpc' = "loop"
    /\ calls' = calls + 1
    /\ UNCHANGED <<max_retries, base_delay, max_delay, on_retry, trace, ret>>
    /\ UNCHANGED <<inner_model, infer_calls, used_models>>
    /\ UNCHANGED windowVars
    /\ UNCHANGED profileVars
    /\ UNCHANGED driverVars

\* return await self.inner.request(...): the inner model answers.
InnerReturns ==
    /\ rpc = "loop"
    /\ InRange(attempt, max_retries)
    /\ inner_model # NoModel
    /\ used_models' = used_models \cup {inner_model}
    /\ UNCHANGED <<inner_model, infer_calls, calls>>
    /\ trace' = Append(trace, [ev |-> "attempt", attempt |-> attempt, out |-> "ok", delay |-> delay])
    /\ ret' = [kind |-> "return", value |-> [response |-> attempt]]
    /\ rpc' = "done"
    /\ UNCHANGED <<max_retries, base_delay, max_delay, on_retry, attempt, delay>>
    /\ UNCHANGED windowVars
    /\ UNCHANGED profileVars
    /\ UNCHANGED driverVars

\* The inner model raises; only ModelHTTPError is caught, and only a 429 with
\* retries left is swallowed.
InnerRaises ==
    /\ rpc = "loop"
    /\ InRange(attempt, max_retries)
    /\ inner_model # NoModel
    /\ used_models' = used_models \cup {inner_model}
    /\ UNCHANGED <<inner_model, infer_calls, calls>>
    /\ \E exc \in InnerFailures :
        /\ trace' = Append(trace, [ev |-> "attempt", attempt |-> attempt, out |-> exc, delay |-> delay])
        /\ IF exc \notin HttpErrors \/ MustReraise(exc, attempt, max_retries)
           THEN /\ ret' = [kind |-> "raise", exc |-> exc, attempt |-> attempt]
                /\ rpc' = "done"
           ELSE /\ ret' = ret
                /\ rpc' = IF on_retry # "none" THEN "callback" ELSE "sleep"
    /\ UNCHANGED <<max_retries, base_delay, max_delay, on_retry, attempt, delay>>
    /\ UNCHANGED windowVars
    /\ UNCHANGED profileVars
    /\ UNCHANGED driverVars

\* await self.on_retry(attempt, delay); an exception of the callback is not caught.
OnRetry ==
    /\ rpc = "callback"
    /\ LET args == OnRetryArgs(attempt, delay)
       IN trace' = Append(trace, [ev |-> "on_retry", attempt |-> args.attempt,
                                  out |-> "-", delay |-> args.delay])
    /\ UNCHANGED lazyVars
    /\ IF on_retry = "raises"
       THEN /\ ret' = [kind |-> "raise", exc |-> "callback", attempt |-> attempt]
            /\ rpc' = "done"
       ELSE /\ ret' = ret
            /\ rpc' = "sleep"
    /\ UNCHANGED <<max_retries, base_delay, max_delay, on_retry, attempt, delay>>
    /\ UNCHANGED windowVars
    /\ UNCHANGED profileVars
    /\ UNCHANGED driverVars

\* await asyncio.sleep(delay); delay = min(delay * 2, self.max_delay); next attempt.
Sleep ==
    /\ rpc = "sleep"
    /\ trace' = Append(trace, [ev |-> "sleep", attempt |-> attempt, out |-> "-", delay |-> delay])
    /\ delay' = NextDelay(delay, max_delay)
    /\ attempt' = attempt + 1
    /\ rpc' = "loop"
    /\ UNCHANGED <<max_retries, base_delay, max_delay, on_retry, ret>>
    /\ UNCHANGED lazyVars
    /\ UNCHANGED windowVars
    /\ UNCHANGED profileVars
    /\ UNCHANGED driverVars

\* The for loop ran out of values: raise RuntimeError("Retry loop exited unexpectedly").
LoopExit ==
    /\ rpc = "loop"
    /\ ~InRange(attempt, max_retries)
    /\ ret' = [kind |-> "raise", exc |-> "RuntimeError", attempt |-> attempt]
    /\ rpc' = "done"
    /\ UNCHANGED <<max_retries, base_delay, max_delay, on_retry, attempt, delay, trace>>
    /\ UNCHANGED lazyVars
    /\ UNCHANGED windowVars
    /\ UNCHANGED profileVars
    /\ UNCHANGED driverVars

\* The property `inner`, reached with no model resolved yet: infer_model is
\* invoked; it returns a model, which is cached, or raises, which ends the call.
Resolve ==
    /\ rpc \in {"loop", "stream", "property"}
    /\ rpc = "loop" => InRange(attempt, max_retries)
    /\ NeedsResolve(inner_model)
    /\ infer_calls' = infer_calls + 1
    /\ \E ok \in BOOLEAN :
        IF ok
        THEN /\ inner_model' = InferredModel(infer_calls')
             /\ trace' = Append(trace, [ev |-> "resolve", attempt |-> attempt,
                                        out |-> "ok", delay |-> delay])
             /\ UNCHANGED <<rpc, ret>>
        ELSE /\ inner_model' = inner_model
             /\ trace' = Append(trace, [ev |-> "resolve", attempt |-> attempt,
                                        out |-> "resolve_error", delay |-> delay])
             /\ ret' = [kind |-> "raise", exc |-> "resolve_error", attempt |-> attempt]
             /\ rpc' = "done"
    /\ UNCHANGED <<max_retries, base_delay, max_delay, on_retry, attempt, delay>>
    /\ UNCHANGED <<used_models, calls>>
    /\ UNCHANGED windowVars
    /\ UNCHANGED profileVars
    /\ UNCHANGED driverVars

\* request_stream is entered.
StreamStart ==
    /\ rpc = "idle"
    /\ rpc' = "stream"
    /\ calls' = calls + 1
    /\ UNCHANGED <<max_retries, base_delay, max_delay, on_retry, attempt, delay, trace, ret>>
    /\ UNCHANGED <<inner_model, infer_calls, used_models>>
    /\ UNCHANGED windowVars
    /\ UNCHANGED profileVars
    /\ UNCHANGED driverVars

\* Faulty variant: a 429 of the inner stream is slept on and the stream reopened.
StreamInnerRetrying ==
    /\ rpc = "stream"
    /\ inner_model # NoModel
    /\ used_models' = used_models \cup {inner_model}
    /\ \E out \in {"ok"} \cup InnerFailures :
        IF out = "http429"
        THEN /\ trace' = trace \o <<[ev |-> "stream", attempt |-> 0, out |-> out, delay |-> 0],
                                    [ev |-> "sleep", attempt |-> 0, out |-> "-", delay |-> base_delay]>>
             /\ UNCHANGED <<rpc, ret>>
        ELSE /\ trace' = Append(trace, [ev |-> "stream", attempt |-> 0, out |-> out, delay |-> 0])
             /\ ret' = IF out = "ok"
                       THEN [kind |-> "return", value |-> [stream |-> 0]]
                       ELSE [kind |-> "raise", exc |-> out, attempt |-> 0]
             /\ rpc' = "done"
    /\ UNCHANGED <<max_retries, base_delay, max_delay, on_retry, attempt, delay>>
    /\ UNCHANGED <<inner_model, infer_calls, calls>>
    /\ UNCHANGED windowVars
    /\ UNCHANGED profileVars
    /\ UNCHANGED driverVars

\* async with self.inner.request_stream(...) as stream: yield stream.  The
\* inner stream is opened once; whatever it raises leaves the context manager.
StreamInner ==
    /\ rpc = "stream"
    /\ inner_model # NoModel
    /\ used_models' = used_models \cup {inner_model}
    /\ \E out \in {"ok"} \cup InnerFailures :
        /\ trace' = Append(trace, [ev |-> "stream", attempt |-> 0, out |-> out, delay |-> 0])
        /\ ret' = IF out = "ok"
                  THEN [kind |-> "return", value |-> [stream |-> 0]]
                  ELSE [kind |-> "raise", exc |-> out, attempt |-> 0]
    /\ rpc' = "done"
    /\ UNCHANGED <<max_retries, base_delay, max_delay, on_retry, attempt, delay>>
    /\ UNCHANGED <<inner_model, infer_calls, calls>>
    /\ UNCHANGED windowVars
    /\ UNCHANGED profileVars
    /\ UNCHANGED driverVars

\* The properties model_name and system are read.
PropertyStart ==
    /\ rpc = "idle"
    /\ rpc' = "property"
    /\ calls' = calls + 1
    /\ UNCHANGED <<max_retries, base_delay, max_delay, on_retry, attempt, delay, trace, ret>>
    /\ UNCHANGED <<inner_model, infer_calls, used_models>>
    /\ UNCHANGED windowVars
    /\ UNCHANGED profileVars
    /\ UNCHANGED driverVars

\* return self.inner.model_name / self.inner.system
PropertyReturn ==
    /\ rpc = "property"
    /\ inner_model # NoModel
    /\ used_models' = used_models \cup {inner_model}
    /\ trace' = Append(trace, [ev |-> "property", attempt |-> 0, out |-> "ok", delay |-> 0])
    /\ ret' = [kind |-> "return", value |-> [name_of |-> inner_model]]
    /\ rpc' = "done"
    /\ UNCHANGED <<max_retries, base_delay, max_delay, on_retry, attempt, delay>>
    /\ UNCHANGED <<inner_model, infer_calls, calls>>
    /\ UNCHANGED windowVars
    /\ UNCHANGED profileVars
    /\ UNCHANGED driverVars

\* The operation has ended; the object is ready for its next operation.  The
\* locals of the ended call are gone.
NextCall ==
    /\ rpc = "done"
    /\ calls < MaxCalls
    /\ rpc' = "idle"
    /\ trace' = <<>>
    /\ ret' = NoRet
    /\ attempt' = 0
    /\ delay' = 0
    /\ UNCHANGED <<max_retries, base_delay, max_delay, on_retry>>
    /\ UNCHANGED lazyVars
    /\ UNCHANGED windowVars
    /\ UNCHANGED profileVars
    /\ UNCHANGED driverVars

(***************************************************************************)
(*                 ProfileManager and the profile tools                    *)
(***************************************************************************)

\* Telegram user ids.
Users == {1, 2}

\* Python None / a missing dict key are the empty tuple, a present value v is
\* the one-element tuple <<v>>.
None == <<>>
Some(v) == <<v>>
Absent == <<>>

\* JSON values as json.dumps writes them and json.loads reads them back:
\* null, a string, a list of strings, a datetime in ISO form.
JNull == <<"null">>
JStr(str) == <<"str", str>>
JList(seq) == <<"list", seq>>
JIso(t) == <<"iso", t>>
JInt(i) == <<"int", i>>

JOpt(v) == IF v = None THEN JNull ELSE JStr(v[1])
ParseStr(j) == j[2]
ParseList(j) == j[2]
ParseDatetime(j) == j[2]
ParseOpt(f) == IF f = Absent \/ f[1] = JNull THEN None ELSE Some(ParseStr(f[1]))

\* A language_code is None or a string, written as its sequence of characters.
LanguageCodes ==
    { <<>>, <<"n", "l">>, <<"F", "R", "-", "b", "e">>, <<"x", "x">> }
Hints == {None} \cup {Some(c) : c \in LanguageCodes}

UpperCase == <<"A", "B", "C", "D", "E", "F", "G", "H", "I", "J", "K", "L", "M",
               "N", "O", "P", "Q", "R", "S", "T", "U", "V", "W", "X", "Y", "Z">>
LowerCase == <<"a", "b", "c", "d", "e", "f", "g", "h", "i", "j", "k", "l", "m",
               "n", "o", "p", "q", "r", "s", "t", "u", "v", "w", "x", "y", "z">>

\* str.lower()
Lower(chars) ==
    [i \in 1..Len(chars) |->
        IF \E k \in 1..Len(UpperCase) : UpperCase[k] = chars[i]
        THEN LowerCase[CHOOSE k \in 1..Len(UpperCase) : UpperCase[k] = chars[i]]
        ELSE chars[i]]

\* str.split("-")[0]
SplitFirst(chars) ==
    LET dashes == {i \in 1..Len(chars) : chars[i] = "-"}
    IN IF dashes = {}
       THEN chars
       ELSE SubSeq(chars, 1, (CHOOSE i \in dashes : \A j \in dashes : i <= j) - 1)

LOCALE_TO_LANGUAGE ==
    (<<"n", "l">> :> "Dutch") @@ (<<"e", "n">> :> "English") @@
    (<<"f", "r">> :> "French") @@ (<<"d", "e">> :> "German") @@
    (<<"e", "s">> :> "Spanish")

DEFAULT_LANGUAGE == "English"

\* Faulty variant: the table is consulted without lowering the code.
resolve_language_case_sensitive(language_code) ==
    IF language_code = None \/ language_code[1] = <<>>
    THEN DEFAULT_LANGUAGE
    ELSE LET base_code == SplitFirst(language_code[1])
         IN IF base_code \in DOMAIN LOCALE_TO_LANGUAGE
            THEN LOCALE_TO_LANGUAGE[base_code]
            ELSE DEFAULT_LANGUAGE

resolve_language(language_code) ==
    IF language_code = None \/ language_code[1] = <<>>
    THEN DEFAULT_LANGUAGE
    ELSE LET base_code == Lower(SplitFirst(language_code[1]))
         IN IF base_code \in DOMAIN LOCALE_TO_LANGUAGE
            THEN LOCALE_TO_LANGUAGE[base_code]
            ELSE DEFAULT_LANGUAGE

Qualities == {"4k", "1080p"}
Languages == {"English", "Dutch", "Klingon"}
ConfirmationModes == {"always", "never"}
Notes == {"n1"}

\* MediaPreferences() and the template of ProfileManager._create_default_profile
DefaultMediaPreferences == [movie_quality |-> None, series_quality |-> None]

default_profile ==
    [user_id |-> 0, name |-> None, created_at |-> 0, updated_at |-> 0,
     reply_language |-> "English", confirmation_mode |-> "always",
     media_preferences |-> DefaultMediaPreferences, notes |-> <<>>]

\* The dict with no key ({}).
EmptyDict ==
    [name |-> Absent, created_at |-> Absent, updated_at |-> Absent,
     reply_language |-> Absent, confirmation_mode |-> Absent,
     media_preferences |-> Absent, notes |-> Absent, user_id |-> Absent, extra |-> {}]

\* Faulty variant: only None counts as no record.
TruthyNotNone(profile_data) == profile_data # None

\* Python truthiness of what get_profile returned: None and {} are falsy.
Truthy(profile_data) == profile_data # None /\ profile_data[1] # EmptyDict

\* ProfileManager.get reads the clock twice (lines 156 and 158, or 164 and
\* 183) unless the stored record carries created_at or updated_at.
ReadsClockOnce(profile_data) ==
    /\ Truthy(profile_data)
    /\ (profile_data[1].created_at # Absent \/ profile_data[1].updated_at # Absent)

\* Faulty variant: the dump leaves the notes out.
model_dump_without_notes(profile) ==
    [name |-> Some(JOpt(profile.name)),
     created_at |-> Some(JIso(profile.created_at)),
     updated_at |-> Some(JIso(profile.updated_at)),
     reply_language |-> Some(JStr(profile.reply_language)),
     confirmation_mode |-> Some(JStr(profile.confirmation_mode)),
     media_preferences |->
         Some([movie_quality |-> Some(JOpt(profile.media_preferences.movie_quality)),
               series_quality |-> Some(JOpt(profile.media_preferences.series_quality)),
               extra |-> {}]),
     notes |-> Absent,
     user_id |-> Absent,
     extra |-> {}]

\* profile.model_dump(mode="json") followed by pop("user_id"): every declared
\* field but user_id is written, None as null, datetimes as ISO strings.
model_dump(profile) ==
    [name |-> Some(JOpt(profile.name)),
     created_at |-> Some(JIso(profile.created_at)),
     updated_at |-> Some(JIso(profile.updated_at)),
     reply_language |-> Some(JStr(profile.reply_language)),
     confirmation_mode |-> Some(JStr(profile.confirmation_mode)),
     media_preferences |->
         Some([movie_quality |-> Some(JOpt(profile.media_preferences.movie_quality)),
               series_quality |-> Some(JOpt(profile.media_preferences.series_quality)),
               extra |-> {}]),
     notes |-> Some(JList(profile.notes)),
     user_id |-> Absent,
     extra |-> {}]

\* Faulty variant: a missing or null quality is filled in with "1080p".
MediaPreferencesDefaulting(d) ==
    [movie_quality |-> IF ParseOpt(d.movie_quality) = None
                       THEN Some("1080p") ELSE ParseOpt(d.movie_quality),
     series_quality |-> IF ParseOpt(d.series_quality) = None
                        THEN Some("1080p") ELSE ParseOpt(d.series_quality)]

\* MediaPreferences(**d): unknown keys are ignored, missing ones are None.
MediaPreferences(d) ==
    [movie_quality |-> ParseOpt(d.movie_quality),
     series_quality |-> ParseOpt(d.series_quality)]

\* Faulty variant: a user_id key of the stored record wins over the row key.
UserProfileStoredId(user_id, data, t1, t2) ==
    [user_id |-> IF data.user_id = Absent THEN user_id ELSE data.user_id[1][2],
     name |-> ParseOpt(data.name),
     created_at |-> IF data.created_at = Absent THEN t1
                    ELSE ParseDatetime(data.created_at[1]),
     updated_at |-> IF data.updated_at = Absent
                    THEN (IF data.created_at = Absent THEN t2 ELSE t1)
                    ELSE ParseDatetime(data.updated_at[1]),
     reply_language |-> IF data.reply_language = Absent THEN "English"
                        ELSE ParseStr(data.reply_language[1]),
     confirmation_mode |-> IF data.confirmation_mode = Absent THEN "always"
                           ELSE ParseStr(data.confirmation_mode[1]),
     media_preferences |-> IF data.media_preferences = Absent
                           THEN DefaultMediaPreferences
                           ELSE MediaPreferences(data.media_preferences[1]),
     notes |-> IF data.notes = Absent THEN <<>> ELSE ParseList(data.notes[1])]

\* The branch of ProfileManager.get for a stored record: user_id comes from
\* the key, media_preferences is rebuilt, a missing created_at is read from
\* the clock at t1 and a missing updated_at at the next read of the clock;
\* UserProfile(**profile_dict) fills the other defaults and ignores unknown keys.
UserProfile(user_id, data, t1, t2) ==
    [user_id |-> user_id,
     name |-> ParseOpt(data.name),
     created_at |-> IF data.created_at = Absent THEN t1
                    ELSE ParseDatetime(data.created_at[1]),
     updated_at |-> IF data.updated_at = Absent
                    THEN (IF data.created_at = Absent THEN t2 ELSE t1)
                    ELSE ParseDatetime(data.updated_at[1]),
     reply_language |-> IF data.reply_language = Absent THEN "English"
                        ELSE ParseStr(data.reply_language[1]),
     confirmation_mode |-> IF data.confirmation_mode = Absent THEN "always"
                           ELSE ParseStr(data.confirmation_mode[1]),
     media_preferences |-> IF data.media_preferences = Absent
                           THEN DefaultMediaPreferences
                           ELSE MediaPreferences(data.media_preferences[1]),
     notes |-> IF data.notes = Absent THEN <<>> ELSE ParseList(data.notes[1])]

\* The branch of ProfileManager.get for a new user.
NewProfile(user_id, language_code, t) ==
    [default_profile EXCEPT !.user_id = user_id,
                            !.created_at = t,
                            !.updated_at = t,
                            !.reply_language = resolve_language(language_code)]

\* Faulty variant: the upsert keeps the media_preferences of the row it
\* replaces.
save_profile_merging(st, user_id, data) ==
    [st EXCEPT ![user_id] =
        IF st[user_id] = None THEN Some(data)
        ELSE Some([data EXCEPT !.media_preferences = st[user_id][1].media_preferences])]

\* db.get_profile and db.save_profile (an upsert of the one row of user_id).
get_profile(st, user_id) == st[user_id]
save_profile(st, user_id, data) == [st EXCEPT ![user_id] = Some(data)]

\* Faulty variant: the stored copy keeps the updated_at of the profile.
save_unstamped(st, profile, t) ==
    save_profile(st, profile.user_id, model_dump(profile))

\* ProfileManager.save at clock value t: the stored copy gets updated_at = t.
save(st, profile, t) ==
    save_profile(st, profile.user_id, model_dump([profile EXCEPT !.updated_at = t]))

NOT_SET_MOVIE == "NOT SET - ask the user before making any movie request"
NOT_SET_SERIES == "NOT SET - ask the user before making any series request"

\* The per-turn prompt context, one field per line of the fragment.
inject_user_profile(profile) ==
    [name |-> IF profile.name # None /\ profile.name[1] # ""
              THEN profile.name[1] ELSE "The user has not set a name.",
     reply_language |-> profile.reply_language,
     confirmation_mode |-> profile.confirmation_mode,
     movie_quality |-> IF profile.media_preferences.movie_quality # None
                          /\ profile.media_preferences.movie_quality[1] # ""
                       THEN profile.media_preferences.movie_quality[1]
                       ELSE NOT_SET_MOVIE,
     series_quality |-> IF profile.media_preferences.series_quality # None
                           /\ profile.media_preferences.series_quality[1] # ""
                        THEN profile.media_preferences.series_quality[1]
                        ELSE NOT_SET_SERIES,
     notes |-> profile.notes]

NoRows == [u \in Users |-> None]

NoOp ==
    [op |-> "none", user_id |-> 0, hint |-> None, arg |-> "", result |-> None,
     reads |-> 0, writes |-> 0, before |-> NoRows, at |-> 0]

Op(name, user_id, hint, arg, res, reads, writes) ==
    [op |-> name, user_id |-> user_id, hint |-> hint, arg |-> arg, result |-> res,
     reads |-> reads, writes |-> writes, before |-> store, at |-> now]

\* Records found in the table when the program starts: written by this or an
\* earlier version of the schema, so any declared field may be missing and
\* unknown keys may be present; timestamps lie in the past, created_at not
\* after updated_at.
StoredTimes == {Absent} \cup {Some(JIso(t)) : t \in 0..MaxStoredTime}
StoredMedia ==
    {Absent} \cup
    {Some(m) : m \in [movie_quality : {Absent, Some(JNull), Some(JStr("4k"))},
                      series_quality : {Absent, Some(JStr("1080p"))},
                      extra : {{}, {"codec"}}]}
StoredRecords ==
    {d \in [name : {Absent, Some(JStr("Ann"))},
            created_at : StoredTimes,
            updated_at : StoredTimes,
            reply_language : {Absent, Some(JStr("Dutch"))},
            confirmation_mode : {Absent, Some(JStr("never"))},
            media_preferences : StoredMedia,
            notes : {Absent, Some(JList(<<"n1">>))},
            user_id : {Absent},
            extra : {{}, {"timezone"}}] :
        (d.created_at # Absent /\ d.updated_at # Absent) =>
            ParseDatetime(d.created_at[1]) <= ParseDatetime(d.updated_at[1])}

\* No profile activity: what the other specifications hold these variables at.
ProfileIdle ==
    /\ store = NoRows
    /\ now = 0
    /\ held = None
    /\ last = NoOp
    /\ ops = 0
    /\ saved = NoRows
    /\ first = NoRows
    /\ allowed_telegram_ids = {}

\* A fresh database.
InitProfile ==
    /\ store = NoRows
    /\ now \in 0..1
    /\ held = None
    /\ last = NoOp
    /\ ops = 0
    /\ saved = NoRows
    /\ first = NoRows
    /\ allowed_telegram_ids = Users

\* A database in which user 1, the only whitelisted user, has a record from
\* before the run.
InitLoad ==
    /\ \E d \in StoredRecords : store = [NoRows EXCEPT ![1] = Some(d)]
    /\ now = Min(MaxStoredTime, MaxTime)
    /\ held = None
    /\ last = NoOp
    /\ ops = 0
    /\ saved = NoRows
    /\ first = NoRows
    /\ allowed_telegram_ids = {1}

\* Records that may carry a user_id key of their own (the key save pops
\* before writing), equal to or different from the key of their row.
IdentityRecords ==
    {d \in [name : {Absent},
            created_at : StoredTimes,
            updated_at : {Absent},
            reply_language : {Absent, Some(JStr("Dutch"))},
            confirmation_mode : {Absent},
            media_preferences : {Absent},
            notes : {Absent},
            user_id : {Absent, Some(JInt(1)), Some(JInt(2))},
            extra : {{}}] : TRUE}

\* A database in which the row of user 1, the only whitelisted user, may
\* hold such a record.
InitIdentity ==
    /\ \/ store = NoRows
       \/ \E d \in IdentityRecords : store = [NoRows EXCEPT ![1] = Some(d)]
    /\ now = Min(MaxStoredTime, MaxTime)
    /\ held = None
    /\ last = NoOp
    /\ ops = 0
    /\ saved = NoRows
    /\ first = NoRows
    /\ allowed_telegram_ids = {1}

\* ProfileManager.get(user_id, language_code=language_code), called by
\* handle_message at the start of a turn of a whitelisted user; the clock may
\* advance between its first and its last read of it.
Get ==
    \E user_id \in allowed_telegram_ids, language_code \in Hints, t2 \in {now, Min(now + 1, MaxTime)} :
       LET profile_data == get_profile(store, user_id)
       IN /\ ops < MaxOps
          /\ ReadsClockOnce(profile_data) => t2 = now
          /\ ops' = ops + 1
          /\ now' = t2
          /\ IF Truthy(profile_data)
             THEN LET profile == UserProfile(user_id, profile_data[1], now, t2)
                  IN /\ held' = Some(profile)
                     /\ last' = Op("get", user_id, language_code, "", Some(profile), 1, 0)
                     /\ UNCHANGED <<store, saved, first>>
             ELSE LET new_profile == NewProfile(user_id, language_code, now)
                  IN /\ store' = save(store, new_profile, t2)
                     /\ saved' = [saved EXCEPT ![user_id] = Some(new_profile)]
                     /\ first' = [first EXCEPT ![user_id] = Some(new_profile)]
                     /\ held' = Some(new_profile)
                     /\ last' = Op("get", user_id, language_code, "", Some(new_profile), 1, 1)
          /\ UNCHANGED allowed_telegram_ids
          /\ UNCHANGED windowVars
          /\ UNCHANGED retryVars
          /\ UNCHANGED driverVars

\* What every profile tool ends with: the working profile becomes `profile`
\* and ProfileManager.save(profile) writes it.
ToolSaves(name, arg, profile) ==
    /\ ops < MaxOps
    /\ ops' = ops + 1
    /\ held' = Some(profile)
    /\ store' = save(store, profile, now)
    /\ saved' = [saved EXCEPT ![profile.user_id] = Some(profile)]
    /\ last' = Op(name, profile.user_id, None, arg, None, 0, 1)
    /\ UNCHANGED <<now, first, allowed_telegram_ids>>
    /\ UNCHANGED windowVars
    /\ UNCHANGED retryVars
    /\ UNCHANGED driverVars

\* ProfileManager.save(profile) on the profile the caller holds.
Save ==
    /\ held # None
    /\ ToolSaves("save", "", held[1])

\* Faulty variant: the tool builds fresh MediaPreferences with the one
\* quality instead of copying the old ones.
set_movie_quality_fresh ==
    /\ held # None
    /\ \E quality \in Qualities :
          ToolSaves("set_movie_quality", quality,
                    [held[1] EXCEPT !.media_preferences =
                        [movie_quality |-> Some(quality), series_quality |-> None]])

set_movie_quality ==
    /\ held # None
    /\ \E quality \in Qualities :
          ToolSaves("set_movie_quality", quality,
                    [held[1] EXCEPT !.media_preferences.movie_quality = Some(quality)])

set_series_quality ==
    /\ held # None
    /\ \E quality \in Qualities :
          ToolSaves("set_series_quality", quality,
                    [held[1] EXCEPT !.media_preferences.series_quality = Some(quality)])

set_reply_language ==
    /\ held # None
    /\ \E language \in Languages :
          ToolSaves("set_reply_language", language,
                    [held[1] EXCEPT !.reply_language = language])

set_confirmation_mode ==
    /\ held # None
    /\ \E mode \in ConfirmationModes :
          ToolSaves("set_confirmation_mode", mode,
                    [held[1] EXCEPT !.confirmation_mode = mode])

update_user_note ==
    /\ held # None
    /\ Len(held[1].notes) < MaxNotes
    /\ \E note \in Notes :
          ToolSaves("update_user_note", note,
                    [held[1] EXCEPT !.notes = Append(held[1].notes, note)])

\* Time passes between operations.
Tick ==
    /\ now < MaxTime
    /\ now' = now + 1
    /\ UNCHANGED <<store, held, last, ops, saved, first, allowed_telegram_ids>>
    /\ UNCHANGED windowVars
    /\ UNCHANGED retryVars
    /\ UNCHANGED driverVars

(***************************************************************************)
(*                 handle_message: one conversation turn                   *)
(***************************************************************************)

\* The handle_message calls of one behaviour; they may overlap.
Turns == {1, 2}

\* Texts are sequences of characters.
Texts == { <<"h", "i">> }
Outputs == { <<>>, <<"a">>, <<"a", "b", "c">>, <<"a", "\n", "b">> }

REJECTION_MESSAGE == <<"n", "o">>
BUSY_NOTICE == <<"b", "u", "s", "y">>
GENERIC_NOTICE == <<"w", "r", "o", "n", "g">>
FALLBACK_NOTICE == <<"d", "o", "n", "e">>

\* How agent.run can fail: a 429 that survived the retries, another
\* ModelHTTPError, any other Exception (a failing tool included).
RunFailures == {"http429", "http_other", "exception"}

\* str.splitlines(keepends=True) for the line break "\n".
RECURSIVE SplitLines(_)
SplitLines(text) ==
    IF text = <<>> THEN <<>>
    ELSE LET breaks == {i \in 1..Len(text) : text[i] = "\n"}
         IN IF breaks = {}
            THEN <<text>>
            ELSE LET b == CHOOSE i \in breaks : \A j \in breaks : i <= j
                 IN <<SubSeq(text, 1, b)>> \o SplitLines(SubSeq(text, b + 1, Len(text)))

RECURSIVE Join(_)
Join(lines) == IF lines = <<>> THEN <<>> ELSE Head(lines) \o Join(Tail(lines))

\* The while loop of _split_message (lines 51-57) on one line: st is
\* [chunks, current, current_len, line].
RECURSIVE SplitLongLine(_, _)
SplitLongLine(st, max_length) ==
    IF Len(st.line) > max_length
    THEN SplitLongLine(
            [chunks |-> (IF st.current # <<>>
                         THEN Append(st.chunks, Join(st.current))
                         ELSE st.chunks)
                        \o <<SubSeq(st.line, 1, max_length)>>,
             current |-> <<>>,
             current_len |-> 0,
             line |-> SubSeq(st.line, max_length + 1, Len(st.line))],
            max_length)
    ELSE st

\* The for loop of _split_message (lines 49-65).
RECURSIVE SplitLoop(_, _, _, _, _)
SplitLoop(lines, chunks, current, current_len, max_length) ==
    IF lines = <<>>
    THEN [chunks |-> chunks, current |-> current]
    ELSE LET a == SplitLongLine([chunks |-> chunks, current |-> current,
                                 current_len |-> current_len, line |-> Head(lines)],
                                max_length)
             flush == a.current_len + Len(a.line) > max_length
             chunks2 == IF flush THEN Append(a.chunks, Join(a.current)) ELSE a.chunks
             current2 == IF flush THEN <<>> ELSE a.current
             len2 == IF flush THEN 0 ELSE a.current_len
         IN SplitLoop(Tail(lines), chunks2, Append(current2, a.line),
                      len2 + Len(a.line), max_length)

\* _split_message(text, max_length)
split_message(text, max_length) ==
    LET r == SplitLoop(SplitLines(text), <<>>, <<>>, 0, max_length)
        chunks == IF r.current # <<>> THEN Append(r.chunks, Join(r.current)) ELSE r.chunks
    IN IF chunks # <<>> THEN chunks ELSE << <<>> >>

\* A row of the conversations table; `by` is the turn that inserted it.
Row(user_id, role, content, by) ==
    [user_id |-> user_id, role |-> role, content |-> content, by |-> by]

\* Faulty variant: LIMIT applied in ascending order, the oldest rows.
get_history_oldest(rows, user_id, limit) ==
    LET own == SelectSeq(rows, LAMBDA r : r.user_id = user_id)
    IN IF limit = None \/ limit[1] < 0 \/ limit[1] >= Len(own)
       THEN own
       ELSE SubSeq(own, 1, limit[1])

\* Faulty variant: the WHERE user_id = ? filter is missing.
get_history_of_all_users(rows, user_id) == rows

\* db.get_history without a limit: the rows of the user, oldest first.
get_history(rows, user_id) ==
    SelectSeq(rows, LAMBDA r : r.user_id = user_id)

\* db.save_message: one INSERT, committed.
save_message(rows, user_id, role, content, by) ==
    Append(rows, Row(user_id, role, content, by))

\* The calls the model makes to the profile tools during a run, and the
\* language codes Telegram reports.
ToolCalls ==
    { <<"set_movie_quality", "4k">>, <<"set_reply_language", "Klingon">> }
TurnHints == {None, Some(<<"n", "l">>)}

\* The working profile after a tool call: each tool replaces one field.
ApplyTool(call, profile) ==
    CASE call[1] = "set_movie_quality" ->
            [profile EXCEPT !.media_preferences.movie_quality = Some(call[2])]
      [] call[1] = "set_series_quality" ->
            [profile EXCEPT !.media_preferences.series_quality = Some(call[2])]
      [] call[1] = "set_reply_language" ->
            [profile EXCEPT !.reply_language = call[2]]
      [] call[1] = "set_confirmation_mode" ->
            [profile EXCEPT !.confirmation_mode = call[2]]
      [] call[1] = "update_user_note" ->
            [profile EXCEPT !.notes = Append(profile.notes, call[2])]

\* Locals of a handle_message call that has not started.
IdleTurn ==
    [pc |-> "idle", user_id |-> 0, text |-> <<>>, typing |-> FALSE,
     user_profile |-> None, write |-> None, history |-> <<>>, tools |-> 0,
     tool_saved |-> None, lastsave |-> None, reply |-> None, err |-> "", chunks |-> <<>>, sent |-> <<>>]

Message(kind, text) == [kind |-> kind, text |-> text]

\* db.get_history: with a limit the newest `limit` rows of the user (ORDER
\* BY id DESC LIMIT ?), put back oldest first; SQLite reads a negative LIMIT
\* as no limit.  Without a limit all rows of the user, oldest first.
get_history_limit(rows, user_id, limit) ==
    LET own == SelectSeq(rows, LAMBDA r : r.user_id = user_id)
    IN IF limit = None \/ limit[1] < 0 \/ limit[1] >= Len(own)
       THEN own
       ELSE SubSeq(own, Len(own) - limit[1] + 1, Len(own))

\* What the caller gets for a row: {"role": ..., "content": ...}.
RoleContent(row) == [role |-> row.role, content |-> row.content]
AsDicts(rows) == [i \in 1..Len(rows) |-> RoleContent(rows[i])]

Roles == {"user", "assistant"}
Contents == { <<"x">>, <<"y">> }
Limits == {None} \cup {Some(k) : k \in (0 - 1)..MaxLimit}

NoQuery == [user_id |-> 0, limit |-> None, result |-> <<>>]

\* HistoryManager.save_message called directly (no turn: by = 0).
SaveMessage ==
    /\ Len(conversations) < MaxRows
    /\ \E user_id \in Users, role \in Roles, content \in Contents :
          conversations' = save_message(conversations, user_id, role, content, 0)
    /\ UNCHANGED <<turn, pending_updates, committer, stopped, query>>
    /\ UNCHANGED profileVars
    /\ UNCHANGED windowVars
    /\ UNCHANGED retryVars

\* HistoryManager.get_history(user_id=..., limit=...)
QueryHistory ==
    /\ \E user_id \in Users, limit \in Limits :
          query' = [user_id |-> user_id, limit |-> limit,
                    result |-> AsDicts(get_history_limit(conversations, user_id, limit))]
    /\ UNCHANGED <<turn, conversations, pending_updates, committer, stopped>>
    /\ UNCHANGED profileVars
    /\ UNCHANGED windowVars
    /\ UNCHANGED retryVars

DriverIdle ==
    /\ turn = [t \in Turns |-> IdleTurn]
    /\ conversations = <<>>
    /\ pending_updates = 0
    /\ committer = [u \in Users |-> 0]
    /\ stopped = FALSE
    /\ query = NoQuery

\* The configured whitelist: everybody who writes, or user 1 alone.
Whitelists == {Users, {1}}

InitDriver ==
    /\ turn = [t \in Turns |-> IdleTurn]
    /\ conversations = <<>>
    /\ pending_updates \in 1..Cardinality(Turns)
    /\ committer = [u \in Users |-> 0]
    /\ stopped = FALSE
    /\ query = NoQuery
    /\ store = NoRows
    /\ now = 0
    /\ held = None
    /\ last = NoOp
    /\ ops = 0
    /\ saved = NoRows
    /\ first = NoRows
    /\ allowed_telegram_ids \in Whitelists

\* One update to handle; user 1 may have a stored profile already.
InitOneUpdate ==
    /\ turn = [t \in Turns |-> IdleTurn]
    /\ conversations = <<>>
    /\ pending_updates = 1
    /\ committer = [u \in Users |-> 0]
    /\ stopped = FALSE
    /\ query = NoQuery
    /\ store \in {NoRows, [NoRows EXCEPT ![1] = Some(model_dump(NewProfile(1, None, 0)))]}
    /\ now = 0
    /\ held = None
    /\ last = NoOp
    /\ ops = 0
    /\ saved = NoRows
    /\ first = NoRows
    /\ allowed_telegram_ids \in Whitelists

DriverFrame ==
    /\ UNCHANGED query
    /\ UNCHANGED <<now, held, last, ops, saved, first, allowed_telegram_ids>>
    /\ UNCHANGED windowVars
    /\ UNCHANGED retryVars

\* Faulty variant: the whitelist check is missing.
ReceiveAnyone(t) ==
    /\ ~stopped
    /\ turn[t].pc = "idle"
    /\ pending_updates > 0
    /\ pending_updates' = pending_updates - 1
    /\ \E user_id \in Users, text \in Texts :
          turn' = [turn EXCEPT ![t].user_id = user_id,
                               ![t].text = text,
                               ![t].pc = "typing"]
    /\ UNCHANGED <<store, conversations, committer, stopped>>
    /\ DriverFrame

\* Lines 113-128: the update arrives; the whitelist check.
Receive(t) ==
    /\ ~stopped
    /\ turn[t].pc = "idle"
    /\ pending_updates > 0
    /\ pending_updates' = pending_updates - 1
    /\ \E user_id \in Users, text \in Texts :
          turn' = [turn EXCEPT ![t].user_id = user_id,
                               ![t].text = text,
                               ![t].pc = IF user_id \in allowed_telegram_ids
                                         THEN "typing" ELSE "reject"]
    /\ UNCHANGED <<store, conversations, committer, stopped>>
    /\ DriverFrame

\* The transport hands over the next update only when no handler is running
\* (Application without concurrent_updates).
ReceiveNext(t) ==
    /\ \A s \in Turns : turn[s].pc \in {"idle", "done"}
    /\ Receive(t)

\* Line 120: the rejection message.
Reject(t) ==
    /\ ~stopped
    /\ turn[t].pc = "reject"
    /\ turn' = [turn EXCEPT ![t].sent = Append(@, Message("rejection", REJECTION_MESSAGE)),
                            ![t].pc = "done"]
    /\ UNCHANGED <<store, conversations, pending_updates, committer, stopped>>
    /\ DriverFrame

\* Line 126: the typing indicator.
SendTyping(t) ==
    /\ ~stopped
    /\ turn[t].pc = "typing"
    /\ turn' = [turn EXCEPT ![t].typing = TRUE, ![t].pc = "get_profile"]
    /\ UNCHANGED <<store, conversations, pending_updates, committer, stopped>>
    /\ DriverFrame

\* Line 132, first half: ProfileManager.get reads the row.  A record makes
\* the profile; without one the new profile and the record to write are
\* built now and written at the next step.
GetProfileRead(t) ==
    /\ ~stopped
    /\ turn[t].pc = "get_profile"
    /\ \E language_code \in TurnHints :
          LET user_id == turn[t].user_id
              profile_data == get_profile(store, user_id)
          IN IF Truthy(profile_data)
             THEN turn' = [turn EXCEPT
                              ![t].user_profile =
                                  Some(UserProfile(user_id, profile_data[1], now, now)),
                              ![t].pc = "get_history"]
             ELSE LET new_profile == NewProfile(user_id, language_code, now)
                  IN turn' = [turn EXCEPT
                                 ![t].user_profile = Some(new_profile),
                                 ![t].write = Some(model_dump(new_profile)),
                                 ![t].pc = "create_profile"]
    /\ UNCHANGED <<store, conversations, pending_updates, committer, stopped>>
    /\ DriverFrame

\* Line 132, second half: the save inside get commits.
GetProfileWrite(t) ==
    /\ ~stopped
    /\ turn[t].pc = "create_profile"
    /\ store' = save_profile(store, turn[t].user_id, turn[t].write[1])
    /\ committer' = [committer EXCEPT ![turn[t].user_id] = t]
    /\ turn' = [turn EXCEPT ![t].write = None,
                            ![t].lastsave = turn[t].write,
                            ![t].pc = "get_history"]
    /\ UNCHANGED <<conversations, pending_updates, stopped>>
    /\ DriverFrame

\* Line 135: the history of the user is read.
GetHistory(t) ==
    /\ ~stopped
    /\ turn[t].pc = "get_history"
    /\ turn' = [turn EXCEPT ![t].history = get_history(conversations, turn[t].user_id),
                            ![t].pc = "run"]
    /\ UNCHANGED <<store, conversations, pending_updates, committer, stopped>>
    /\ DriverFrame

\* Faulty variant: the tool changes the working profile and leaves the save
\* to the end of the turn.
ToolCallUnsaved(t) ==
    /\ ~stopped
    /\ turn[t].pc = "run"
    /\ turn[t].tools < MaxTools
    /\ \E call \in ToolCalls :
          LET profile == ApplyTool(call, turn[t].user_profile[1])
          IN /\ call[1] = "update_user_note" => Len(turn[t].user_profile[1].notes) < MaxNotes
             /\ committer' = [committer EXCEPT ![profile.user_id] = t]
             /\ turn' = [turn EXCEPT ![t].user_profile = Some(profile),
                                     ![t].tool_saved = Some(profile),
                                     ![t].tools = @ + 1]
    /\ UNCHANGED <<store, conversations, pending_updates, stopped>>
    /\ DriverFrame

\* Line 146, agent.run: the model asks for a profile tool; the tool replaces
\* deps.user_profile and saves it.
ToolCall(t) ==
    /\ ~stopped
    /\ turn[t].pc = "run"
    /\ turn[t].tools < MaxTools
    /\ \E call \in ToolCalls :
          LET profile == ApplyTool(call, turn[t].user_profile[1])
          IN /\ call[1] = "update_user_note" => Len(turn[t].user_profile[1].notes) < MaxNotes
             /\ store' = save(store, profile, now)
             /\ committer' = [committer EXCEPT ![profile.user_id] = t]
             /\ turn' = [turn EXCEPT ![t].user_profile = Some(profile),
                                     ![t].tool_saved = Some(profile),
                                     ![t].lastsave =
                                         Some(model_dump([profile EXCEPT !.updated_at = now])),
                                     ![t].tools = @ + 1]
    /\ UNCHANGED <<conversations, pending_updates, stopped>>
    /\ DriverFrame

\* Faulty variant: the user row is written before the agent runs.
RunFailsAfterUserRow(t) ==
    /\ ~stopped
    /\ turn[t].pc = "run"
    /\ \E err \in RunFailures :
          turn' = [turn EXCEPT ![t].err = err, ![t].pc = "failed"]
    /\ conversations' = save_message(conversations, turn[t].user_id, "user", turn[t].text, t)
    /\ UNCHANGED <<store, pending_updates, committer, stopped>>
    /\ DriverFrame

\* Line 146 raises: lines 149-164 pick the notice.
RunFails(t) ==
    /\ ~stopped
    /\ turn[t].pc = "run"
    /\ \E err \in RunFailures :
          turn' = [turn EXCEPT ![t].err = err, ![t].pc = "failed"]
    /\ UNCHANGED <<store, conversations, pending_updates, committer, stopped>>
    /\ DriverFrame

\* Faulty variant: every failure gets the generic notice.
NotifyFailureGeneric(t) ==
    /\ ~stopped
    /\ turn[t].pc = "failed"
    /\ turn' = [turn EXCEPT ![t].sent = Append(@, Message("generic", GENERIC_NOTICE)),
                            ![t].pc = "done"]
    /\ UNCHANGED <<store, conversations, pending_updates, committer, stopped>>
    /\ DriverFrame

\* Lines 152-163: the notice is sent and the handler returns.
NotifyFailure(t) ==
    /\ ~stopped
    /\ turn[t].pc = "failed"
    /\ turn' = [turn EXCEPT
                   ![t].sent = Append(@, IF turn[t].err = "http429"
                                         THEN Message("busy", BUSY_NOTICE)
                                         ELSE Message("generic", GENERIC_NOTICE)),
                   ![t].pc = "done"]
    /\ UNCHANGED <<store, conversations, pending_updates, committer, stopped>>
    /\ DriverFrame

\* Faulty variant: the `if not reply` guard is missing.
RunReturnsUnguarded(t) ==
    /\ ~stopped
    /\ turn[t].pc = "run"
    /\ \E output \in Outputs :
          turn' = [turn EXCEPT ![t].reply = Some(output), ![t].pc = "save_user"]
    /\ UNCHANGED <<store, conversations, pending_updates, committer, stopped>>
    /\ DriverFrame

\* Lines 146-147 and 166: agent.run returns its output; empty output goes to
\* the fallback notice, anything else to persistence.
RunReturns(t) ==
    /\ ~stopped
    /\ turn[t].pc = "run"
    /\ \E output \in Outputs :
          turn' = [turn EXCEPT ![t].reply = Some(output),
                               ![t].pc = IF output = <<>> THEN "fallback" ELSE "save_user"]
    /\ UNCHANGED <<store, conversations, pending_updates, committer, stopped>>
    /\ DriverFrame

\* Lines 166-169.
SendFallback(t) ==
    /\ ~stopped
    /\ turn[t].pc = "fallback"
    /\ turn' = [turn EXCEPT ![t].sent = Append(@, Message("fallback", FALLBACK_NOTICE)),
                            ![t].pc = "done"]
    /\ UNCHANGED <<store, conversations, pending_updates, committer, stopped>>
    /\ DriverFrame

\* Line 172.
SaveUserMessage(t) ==
    /\ ~stopped
    /\ turn[t].pc = "save_user"
    /\ conversations' = save_message(conversations, turn[t].user_id, "user", turn[t].text, t)
    /\ turn' = [turn EXCEPT ![t].pc = "save_assistant"]
    /\ UNCHANGED <<store, pending_updates, committer, stopped>>
    /\ DriverFrame

\* Lines 173 and 175: the assistant row, then the reply is split.
SaveAssistantMessage(t) ==
    /\ ~stopped
    /\ turn[t].pc = "save_assistant"
    /\ conversations' =
          save_message(conversations, turn[t].user_id, "assistant", turn[t].reply[1], t)
    /\ turn' = [turn EXCEPT ![t].chunks = split_message(turn[t].reply[1], MaxLength),
                            ![t].pc = "reply"]
    /\ UNCHANGED <<store, pending_updates, committer, stopped>>
    /\ DriverFrame

\* Lines 175-177: one chunk is sent; after the last the handler returns.
SendChunk(t) ==
    /\ ~stopped
    /\ turn[t].pc = "reply"
    /\ turn' = [turn EXCEPT ![t].sent = Append(@, Message("reply", Head(turn[t].chunks))),
                            ![t].chunks = Tail(@),
                            ![t].pc = IF Len(turn[t].chunks) = 1 THEN "done" ELSE "reply"]
    /\ UNCHANGED <<store, conversations, pending_updates, committer, stopped>>
    /\ DriverFrame

\* The process is stopped: no handler takes another step, the tables stay.
Stop ==
    /\ ~stopped
    /\ \E t \in Turns : turn[t].pc \notin {"idle", "done"}
    /\ stopped' = TRUE
    /\ UNCHANGED <<turn, store, conversations, pending_updates, committer>>
    /\ DriverFrame

(***************************************************************************)
(*                  properties of sliding_window_processor                 *)
(***************************************************************************)

Last(s) == s[Len(s)]
Front(s) == SubSeq(s, 1, Len(s) - 1)
Occurs(msg, s) == \E j \in 1..Len(s) : s[j] = msg

\* Alternating request, response, ..., optionally ending in one unpaired request.
WellFormed(msgs) == \A i \in 1..Len(msgs) : IsRequest(msgs[i]) <=> (i % 2 = 1)
EndsInRequest(msgs) == msgs # <<>> /\ IsRequest(Last(msgs))

\* Number of complete pairs of a well-formed list.
NumPairs(msgs) == Len(msgs) \div 2

\* Even length, alternating request, response.
OnlyPairs(s) ==
    /\ Len(s) % 2 = 0
    /\ \A i \in 1..Len(s) : IsRequest(s[i]) <=> (i % 2 = 1)

\* Number of request/response pairs in an output.
PairCount(s) == Cardinality({i \in 1..(Len(s) - 1) : IsRequest(s[i]) /\ IsResponse(s[i + 1])})

\* Position of the first request that is not immediately followed by a
\* response; Len + 1 when there is none.
IsUnpairedAt(msgs, i) ==
    IsRequest(msgs[i]) /\ (i = Len(msgs) \/ IsRequest(msgs[i + 1]))
FirstUnpaired(msgs) ==
    IF \E i \in 1..Len(msgs) : IsUnpairedAt(msgs, i)
    THEN CHOOSE i \in 1..Len(msgs) :
            IsUnpairedAt(msgs, i) /\ \A j \in 1..(i - 1) : ~IsUnpairedAt(msgs, j)
    ELSE Len(msgs) + 1

\* A response with no request immediately before it.
IsOrphanAt(msgs, i) == IsResponse(msgs[i]) /\ (i = 1 \/ IsResponse(msgs[i - 1]))

WindowDone == wpc = "done"

\* C1: for every keep >= 0 and every well-formed input, the output holds at
\* most keep complete pairs, and a trailing unpaired request of the input is
\* the last element of the output.
C1_PairCountAtMostKeep ==
    (WindowDone /\ WellFormed(messages)) =>
        /\ PairCount(result) <= n
        /\ EndsInRequest(messages) =>
              (result # <<>> /\ Last(result) = Last(messages))

\* C2: with keep = 0 the output of a well-formed input is only its trailing
\* unpaired request, or empty when there is none.
C2_KeepZeroOnlyTrailing ==
    (WindowDone /\ WellFormed(messages) /\ n = 0) =>
        result = (IF EndsInRequest(messages) THEN <<Last(messages)>> ELSE <<>>)

\* C3: for keep >= 1 and a well-formed input of P pairs, the pairs of the
\* output are exactly the last min(keep, P) pairs of the input, in order and
\* whole, and no message of an earlier pair occurs in the output.
C3_LastPairsKept ==
    (WindowDone /\ WellFormed(messages) /\ n >= 1) =>
        LET P == NumPairs(messages)
            m == Min(n, P)
        IN /\ Len(result) = 2 * m + (Len(messages) - 2 * P)
           /\ SubSeq(result, 1, 2 * m) = SubSeq(messages, 2 * (P - m) + 1, 2 * P)
           /\ \A i \in 1..(2 * (P - m)) : ~Occurs(messages[i], result)

C3_Witness ==
    /\ WindowDone /\ WellFormed(messages) /\ n = 2
    /\ Len(messages) = 6
    /\ result = SubSeq(messages, 3, 6)

\* C4: an input of exactly N complete pairs and keep >= N comes back unchanged.
C4_AllPairsUnchanged ==
    (WindowDone /\ WellFormed(messages) /\ Len(messages) % 2 = 0
        /\ n >= NumPairs(messages)) =>
        result = messages

C4_Witness ==
    /\ WindowDone /\ WellFormed(messages) /\ Len(messages) = 4
    /\ n = 2
    /\ result = messages

\* C5: in a well-formed input no pair is split: a request and the response
\* that follows it are both in the output, adjacent and in order, or both
\* absent; the output before the trailing unpaired request is whole pairs.
C5_PairsNeverSplit ==
    (WindowDone /\ WellFormed(messages)) =>
        /\ \A i \in 1..(Len(messages) - 1) :
              IsRequest(messages[i]) =>
                 \/ \E j \in 1..(Len(result) - 1) :
                        result[j] = messages[i] /\ result[j + 1] = messages[i + 1]
                 \/ ~Occurs(messages[i], result) /\ ~Occurs(messages[i + 1], result)
        /\ OnlyPairs(IF EndsInRequest(messages) THEN Front(result) ELSE result)

C5_Witness ==
    /\ WindowDone /\ WellFormed(messages) /\ Len(messages) = 5
    /\ n = 1
    /\ messages[1].tool /\ messages[2].tool
    /\ messages[3].tool /\ messages[4].tool
    /\ result = SubSeq(messages, 3, 5)

\* C6 as claimed: for every input, every response with no request immediately
\* before it is absent from the output.
C6_EveryOrphanDropped ==
    WindowDone =>
        \A i \in 1..Len(messages) :
            IsOrphanAt(messages, i) => ~Occurs(messages[i], result)

\* C6 as amended: every response with no request immediately before it that
\* lies before the first unpaired request is absent from the output; from the
\* first unpaired request on the input is kept verbatim.
C6_OrphanBeforeTailDropped ==
    WindowDone =>
        LET u == FirstUnpaired(messages)
            t == Len(messages) - u + 1
        IN /\ \A i \in 1..(u - 1) :
                 IsOrphanAt(messages, i) => ~Occurs(messages[i], result)
           /\ Len(result) >= t
           /\ SubSeq(result, Len(result) - t + 1, Len(result))
                 = SubSeq(messages, u, Len(messages))

C6_Witness ==
    /\ WindowDone /\ Len(messages) = 5
    /\ IsOrphanAt(messages, 1) /\ IsOrphanAt(messages, 4)
    /\ FirstUnpaired(messages) = 5
    /\ n >= 1
    /\ result = <<messages[2], messages[3], messages[5]>>

\* C7 as claimed: when the input ends in a request, the output is complete
\* pairs followed by exactly that one request.
C7_TailIsOneRequest ==
    (WindowDone /\ EndsInRequest(messages)) =>
        /\ result # <<>>
        /\ Last(result) = Last(messages)
        /\ OnlyPairs(Front(result))

\* C7 as amended: when the input ends in a request, the output is complete
\* pairs followed by the input from its first unpaired request on, verbatim;
\* that portion ends in the last request and has length 1 when the input is
\* well-formed.
C7_TailIsTrailingSequence ==
    (WindowDone /\ EndsInRequest(messages)) =>
        LET u == FirstUnpaired(messages)
            t == Len(messages) - u + 1
        IN /\ t >= 1
           /\ Len(result) >= t
           /\ SubSeq(result, Len(result) - t + 1, Len(result))
                 = SubSeq(messages, u, Len(messages))
           /\ Last(result) = Last(messages)
           /\ OnlyPairs(SubSeq(result, 1, Len(result) - t))
           /\ WellFormed(messages) => t = 1

C7_Witness ==
    /\ WindowDone /\ Len(messages) = 5
    /\ WellFormed(SubSeq(messages, 1, 3))
    /\ IsRequest(messages[4]) /\ IsRequest(messages[5])
    /\ n >= 1
    /\ result = <<messages[1], messages[2], messages[3], messages[4], messages[5]>>

(***************************************************************************)
(*                   properties of RetryingModel.request                   *)
(***************************************************************************)

IsAttempt(e) == e.ev = "attempt"
IsSleep(e) == e.ev = "sleep"
IsAttemptOrSleep(e) == IsAttempt(e) \/ IsSleep(e)

Attempts == SelectSeq(trace, IsAttempt)
Sleeps == SelectSeq(trace, IsSleep)

RECURSIVE Pow2(_)
Pow2(i) == IF i = 0 THEN 1 ELSE 2 * Pow2(i - 1)

RequestDone == rpc = "done"

\* The inner model failed with 429 on its first attempts and then succeeded.
FailedThenSucceeded ==
    /\ Attempts # <<>>
    /\ Last(Attempts).out = "ok"
    /\ \A i \in 1..(Len(Attempts) - 1) : Attempts[i].out = "http429"

\* Every inner attempt failed with 429, and there was at least one.
AllAttempts429 ==
    /\ Attempts # <<>>
    /\ \A i \in 1..Len(Attempts) : Attempts[i].out = "http429"

\* Attempts and sleeps strictly alternate, starting with attempt 0: sleep i
\* lies between attempt i and attempt i + 1.
SleepsBetweenAttempts ==
    LET as == SelectSeq(trace, IsAttemptOrSleep)
    IN \A j \in 1..Len(as) :
          /\ as[j].attempt = (j - 1) \div 2
          /\ IsAttempt(as[j]) <=> (j % 2 = 1)

\* C8: after k 429 failures (0 <= k <= max_retries) followed by a success,
\* request returns that success after exactly k + 1 attempts and k sleeps, the
\* i-th sleep lasts min(base_delay * 2^i, max_delay), and sleep i lies between
\* attempt i and attempt i + 1.
C8_BackoffThenSuccess ==
    (RequestDone /\ FailedThenSucceeded) =>
        LET k == Len(Attempts) - 1
        IN /\ k <= max_retries
           /\ ret = [kind |-> "return", value |-> [response |-> k]]
           /\ Len(Sleeps) = k
           /\ \A i \in 0..(k - 1) :
                 Sleeps[i + 1].delay = Min(base_delay * Pow2(i), max_delay)
           /\ SleepsBetweenAttempts

C10_OtherFailurePropagates ==
    \A p \in 1..Len(trace) :
        (IsAttempt(trace[p]) /\ trace[p].out \in {"http500", "other"}) =>
            LET j == trace[p].attempt
            IN /\ p = Len(trace)
               /\ RequestDone
               /\ ret = [kind |-> "raise", exc |-> trace[p].out, attempt |-> j]
               /\ Len(Attempts) = j + 1
               /\ Len(Sleeps) = j
               /\ \A i \in 1..j : Attempts[i].out = "http429"

C10_Witness ==
    /\ RequestDone
    /\ Len(Attempts) = 3 /\ Len(Sleeps) = 2
    /\ Last(trace).out = "http500"
    /\ ret = [kind |-> "raise", exc |-> "http500", attempt |-> 2]

IsOnRetry(e) == e.ev = "on_retry"
IsStream(e) == e.ev = "stream"
IsResolve(e) == e.ev = "resolve"

\* C11: no sleep of request lasts longer than max_delay, whatever base_delay
\* and max_delay are.
C11_SleepAtMostMaxDelay ==
    \A p \in 1..Len(trace) : IsSleep(trace[p]) => trace[p].delay <= max_delay

\* C12: with an on_retry callback configured, every sleep is directly preceded
\* by one callback invocation carrying the index of the failed attempt and the
\* delay of that sleep, and the callback is invoked only directly after a 429
\* failure of an attempt that is not the last one: not on success, not on
\* another failure, not after the final attempt.
C12_CallbackBeforeEachSleep ==
    (on_retry # "none") =>
        /\ \A p \in 1..Len(trace) :
              IsSleep(trace[p]) =>
                 /\ p >= 3
                 /\ IsOnRetry(trace[p - 1])
                 /\ trace[p - 1].attempt = trace[p].attempt
                 /\ trace[p - 1].delay = trace[p].delay
                 /\ IsAttempt(trace[p - 2])
                 /\ trace[p - 2].attempt = trace[p].attempt
        /\ \A p \in 1..Len(trace) :
              IsOnRetry(trace[p]) =>
                 /\ p >= 2
                 /\ IsAttempt(trace[p - 1])
                 /\ trace[p - 1].out = "http429"
                 /\ trace[p - 1].attempt = trace[p].attempt
                 /\ trace[p].attempt < max_retries
                 /\ p < Len(trace) => IsSleep(trace[p + 1])
        /\ rpc = "sleep" => (IsOnRetry(Last(trace)) /\ Last(trace).delay = delay)
        /\ (RequestDone /\ ret.kind = "return") => ~IsOnRetry(Last(trace))

C12_Witness ==
    /\ on_retry = "returns"
    /\ RequestDone /\ ret.kind = "return"
    /\ Len(Sleeps) = 2
    /\ Len(SelectSeq(trace, IsOnRetry)) = 2
    /\ base_delay = 1 /\ max_delay = 4

\* C13: the callback does not change what request does: a call that made
\* attempts ends with the outcome of its last attempt, a returned response or
\* a raised inner error (a 429 only when the retries are used up), after one
\* sleep per earlier attempt, whether or not a callback is configured and
\* whatever the callback does.
C13_CallbackTransparent ==
    (RequestDone /\ Attempts # <<>>) =>
        LET a == Last(Attempts)
        IN /\ Len(Sleeps) = Len(Attempts) - 1
           /\ IF a.out = "ok"
              THEN ret = [kind |-> "return", value |-> [response |-> a.attempt]]
              ELSE /\ ret = [kind |-> "raise", exc |-> a.out, attempt |-> a.attempt]
                   /\ a.out = "http429" => a.attempt = max_retries

\* C14: request_stream opens the inner stream exactly once and never sleeps or
\* retries: the outcome of that single attempt, a 429 included, ends the call.
C14_StreamNeverRetried ==
    /\ rpc = "stream" => \A q \in 1..Len(trace) : IsResolve(trace[q])
    /\ \A p \in 1..Len(trace) :
          IsStream(trace[p]) =>
             /\ p = Len(trace)
             /\ \A q \in 1..(p - 1) : IsResolve(trace[q])
             /\ RequestDone
             /\ ret = (IF trace[p].out = "ok"
                       THEN [kind |-> "return", value |-> [stream |-> 0]]
                       ELSE [kind |-> "raise", exc |-> trace[p].out, attempt |-> 0])

C14_Witness ==
    /\ RequestDone
    /\ trace # <<>> /\ IsStream(Last(trace))
    /\ Last(trace).out = "http429"
    /\ ret = [kind |-> "raise", exc |-> "http429", attempt |-> 0]
    /\ max_retries = 3

\* C15: a RetryingModel built from a model name resolves its model lazily:
\* infer_model runs only inside an operation that needs the model, never once
\* a model is held; the held model never changes and is the only one used; a
\* failed resolution ends that operation with the resolution error.
C15_LazyResolution ==
    [][ /\ (infer_calls' # infer_calls) =>
              /\ rpc \in {"loop", "stream", "property"}
              /\ inner_model = NoModel
              /\ infer_calls' = infer_calls + 1
        /\ (inner_model # NoModel) => (inner_model' = inner_model)
        /\ (inner_model' # inner_model) => (inner_model' = InferredModel(infer_calls'))
        /\ (infer_calls' # infer_calls /\ inner_model' = NoModel) =>
              /\ rpc' = "done"
              /\ ret' = [kind |-> "raise", exc |-> "resolve_error", attempt |-> attempt]
        /\ used_models' \subseteq {inner_model'} \ {NoModel}
        /\ (rpc' = "idle") => (infer_calls' = infer_calls /\ inner_model' = inner_model)
      ]_vars

C15_Witness ==
    /\ calls = 2
    /\ infer_calls = 1
    /\ inner_model = InferredModel(1)
    /\ used_models = {InferredModel(1)}
    /\ Len(Attempts) = 2
    /\ ~(\E q \in 1..Len(trace) : IsResolve(trace[q]))

(***************************************************************************)
(*                      properties of ProfileManager                       *)
(***************************************************************************)

IsGet == last.op = "get"

\* The get found a row for the user / found none.
FoundRow == IsGet /\ last.before[last.user_id] # None
FoundNoRow == IsGet /\ last.before[last.user_id] = None

Returned == last.result[1]

\* Equality of two profiles in every field but updated_at.
SameButUpdatedAt(p, q) == [p EXCEPT !.updated_at = 0] = [q EXCEPT !.updated_at = 0]

\* C16: round trip.  A get that finds the record written by save(p) returns a
\* profile equal to p in user_id, name, created_at, reply_language,
\* confirmation_mode, both qualities and notes, with updated_at >= p.updated_at.
C16_RoundTrip ==
    (FoundRow /\ last.writes = 0 /\ saved[last.user_id] # None) =>
        LET p == saved[last.user_id][1]
        IN /\ Returned.user_id = p.user_id
           /\ Returned.name = p.name
           /\ Returned.created_at = p.created_at
           /\ Returned.reply_language = p.reply_language
           /\ Returned.confirmation_mode = p.confirmation_mode
           /\ Returned.media_preferences.movie_quality = p.media_preferences.movie_quality
           /\ Returned.media_preferences.series_quality = p.media_preferences.series_quality
           /\ Returned.notes = p.notes
           /\ Returned.updated_at >= p.updated_at

C16_Witness ==
    /\ FoundRow /\ last.writes = 0
    /\ saved[1] # None
    /\ last.user_id = 1
    /\ saved[1][1].name = Some("Ann")
    /\ saved[1][1].notes = <<"n1">>
    /\ saved[1][1].media_preferences.movie_quality = Some("4k")
    /\ saved[1][1].reply_language = "Dutch"
    /\ Returned.updated_at > saved[1][1].updated_at

\* The language the fixed table gives for each locale hint in use.
ExpectedLanguage(hint) ==
    CASE hint = Some(<<"n", "l">>) -> "Dutch"
      [] hint = Some(<<"F", "R", "-", "b", "e">>) -> "French"
      [] OTHER -> "English"

\* C17: a get that finds no row returns the defaults template with the
\* user's id, both timestamps at the time of the call and the reply language
\* of the hint, and has written exactly that profile to the table when it
\* returns; a later get for the user returns the created_at of that first
\* profile and, while nothing else was saved for the user, all its fields
\* (updated_at not earlier).
C17_FirstGetCreatesAndPersists ==
    /\ FoundNoRow =>
          /\ Returned = [user_id |-> last.user_id, name |-> None,
                         created_at |-> last.at, updated_at |-> last.at,
                         reply_language |-> ExpectedLanguage(last.hint),
                         confirmation_mode |-> "always",
                         media_preferences |-> [movie_quality |-> None,
                                                series_quality |-> None],
                         notes |-> <<>>]
          /\ last.writes = 1
          /\ store[last.user_id] # None
          /\ SameButUpdatedAt(UserProfile(last.user_id, store[last.user_id][1], 0, 0),
                              Returned)
          /\ first[last.user_id] = Some(Returned)
    /\ (FoundRow /\ first[last.user_id] # None) =>
          /\ last.writes = 0
          /\ Returned.created_at = first[last.user_id][1].created_at
          /\ (saved[last.user_id] = first[last.user_id]) =>
                /\ SameButUpdatedAt(Returned, first[last.user_id][1])
                /\ Returned.updated_at >= first[last.user_id][1].updated_at

C17_Witness ==
    /\ FoundRow
    /\ last.user_id = 2
    /\ first[2] # None
    /\ saved[2] = first[2]
    /\ first[2][1].reply_language = "French"
    /\ last.hint = Some(<<"n", "l">>)
    /\ Returned.reply_language = "French"
    /\ last.at > first[2][1].created_at

\* The reply_language a stored record holds.
StoredLanguage(data) ==
    IF data.reply_language = Absent THEN "English" ELSE data.reply_language[1][2]

\* C18: a get for a user that has a row, whatever the row holds and whatever
\* the hint, writes nothing, leaves the table as it was and returns the
\* stored reply_language.
C18_ExistingRecordUntouched ==
    FoundRow =>
        /\ last.writes = 0
        /\ store = last.before
        /\ Returned.reply_language = StoredLanguage(last.before[last.user_id][1])

\* C19: loading a stored record never fails and gives each missing field its
\* declared default: name None, reply_language English, confirmation_mode
\* always, qualities unset, notes empty, timestamps read from the clock;
\* present fields keep their stored value and unknown keys play no part.
C19_MissingFieldsGetDefaults ==
    FoundRow =>
        LET data == last.before[last.user_id][1]
            media == IF data.media_preferences = Absent
                     THEN [movie_quality |-> Absent, series_quality |-> Absent]
                     ELSE data.media_preferences[1]
        IN /\ last.result # None
           /\ Returned.user_id = last.user_id
           /\ Returned.name =
                 (IF data.name \in {Absent, Some(JNull)} THEN None
                  ELSE Some(data.name[1][2]))
           /\ Returned.reply_language = StoredLanguage(data)
           /\ Returned.confirmation_mode =
                 (IF data.confirmation_mode = Absent THEN "always"
                  ELSE data.confirmation_mode[1][2])
           /\ Returned.media_preferences.movie_quality =
                 (IF media.movie_quality \in {Absent, Some(JNull)} THEN None
                  ELSE Some(media.movie_quality[1][2]))
           /\ Returned.media_preferences.series_quality =
                 (IF media.series_quality \in {Absent, Some(JNull)} THEN None
                  ELSE Some(media.series_quality[1][2]))
           /\ Returned.notes = (IF data.notes = Absent THEN <<>> ELSE data.notes[1][2])
           /\ IF data.created_at = Absent
              THEN Returned.created_at \in last.at..now
              ELSE Returned.created_at = data.created_at[1][2]
           /\ IF data.updated_at = Absent
              THEN Returned.updated_at \in last.at..now
              ELSE Returned.updated_at = data.updated_at[1][2]

\* The quality a row of the table holds for a user: unset when there is no
\* row, no media_preferences, no such key, or null.
StoredQuality(st, user_id, field) ==
    IF st[user_id] = None THEN None
    ELSE IF st[user_id][1].media_preferences = Absent THEN None
    ELSE LET f == st[user_id][1].media_preferences[1][field]
         IN IF f = Absent \/ f = Some(JNull) THEN None ELSE Some(f[1][2])

\* The working profile's quality, for the user the turn is about.
HeldQuality(h, user_id, field) ==
    IF h = None THEN None
    ELSE IF h[1].user_id # user_id THEN None
    ELSE h[1].media_preferences[field]

\* One quality field across one step: it goes from unset to a value only by
\* its own tool, in the table and in the working profile alike.
QualityStep(user_id, field, tool) ==
    /\ (first'[user_id] # first[user_id]) =>
          /\ first'[user_id][1].media_preferences[field] = None
          /\ StoredQuality(store', user_id, field) = None
    /\ (StoredQuality(store, user_id, field) = None
            /\ StoredQuality(store', user_id, field) # None) =>
          /\ last'.op = tool
          /\ last'.user_id = user_id
          /\ StoredQuality(store', user_id, field) = Some(last'.arg)
    /\ (HeldQuality(held', user_id, field) # None
            /\ HeldQuality(held', user_id, field) # HeldQuality(held, user_id, field)) =>
          \/ /\ last'.op = tool
             /\ HeldQuality(held', user_id, field) = Some(last'.arg)
          \/ /\ last'.op = "get"
             /\ last'.user_id = user_id
             /\ HeldQuality(held', user_id, field) = StoredQuality(store, user_id, field)

\* What the prompt context shows for the qualities of a working profile.
PromptShows(h) ==
    h # None =>
        LET prefs == h[1].media_preferences
            ctx == inject_user_profile(h[1])
        IN /\ ctx.movie_quality =
                 (IF prefs.movie_quality = None THEN NOT_SET_MOVIE
                  ELSE prefs.movie_quality[1])
           /\ ctx.series_quality =
                 (IF prefs.series_quality = None THEN NOT_SET_SERIES
                  ELSE prefs.series_quality[1])
           /\ (ctx.movie_quality = NOT_SET_MOVIE) <=> (prefs.movie_quality = None)
           /\ (ctx.series_quality = NOT_SET_SERIES) <=> (prefs.series_quality = None)

WrittenBySave(user_id) == saved[user_id] # None /\ store[user_id] # None

\* C21: updated_at >= created_at in every profile get returns and in every
\* record save writes, records stored without created_at or without
\* updated_at included.
C21_UpdatedNotBeforeCreated ==
    /\ IsGet => Returned.updated_at >= Returned.created_at
    /\ \A u \in Users :
          WrittenBySave(u) =>
             ParseDatetime(store[u][1].updated_at[1]) >=
                ParseDatetime(store[u][1].created_at[1])

ToolNames ==
    {"set_movie_quality", "set_series_quality", "set_reply_language",
     "set_confirmation_mode", "update_user_note"}

\* C22: identity never changes.  get(id) returns a profile whose user_id is
\* id whatever the record holds; a write to the table goes to the row of the
\* saved profile's own user_id; a profile tool leaves user_id and created_at
\* as they were, in the working profile and in the record it writes.
C22_IdentityNeverChanges ==
    [][ /\ (ops' # ops /\ last'.op = "get") =>
              last'.result[1].user_id = last'.user_id
        /\ \A u \in Users :
              (store'[u] # store[u]) =>
                 /\ saved'[u] # None
                 /\ saved'[u][1].user_id = u
                 /\ store'[u] = Some(model_dump([saved'[u][1] EXCEPT !.updated_at = now']))
        /\ (ops' # ops /\ last'.op \in ToolNames) =>
              /\ held'[1].user_id = held[1].user_id
              /\ held'[1].created_at = held[1].created_at
              /\ store'[held[1].user_id][1].created_at = Some(JIso(held[1].created_at))
              /\ \A u \in Users \ {held[1].user_id} : store'[u] = store[u]
      ]_vars

C22_Witness ==
    /\ last.op = "set_reply_language"
    /\ held[1].user_id = 1
    /\ last.before[1] # None
    /\ last.before[1][1].user_id = Some(JInt(2))
    /\ store[1][1].user_id = Absent
    /\ store[2] = None
    /\ first[1] = None
    /\ held[1].created_at < now

RowsOf(t) == SelectSeq(conversations, LAMBDA r : r.by = t)

\* The two rows of a turn whose reply is `output`.
BothRows(t, output) ==
    << Row(turn[t].user_id, "user", turn[t].text, t),
       Row(turn[t].user_id, "assistant", output, t) >>

Failed(t) == turn[t].err # ""
Ended(t) == turn[t].pc = "done"

\* C24: every turn whose agent run produced a response, empty text included,
\* has appended exactly two rows when it ends: the user row with the inbound
\* text, then the assistant row with the output.
C24_TwoRowsForEveryResponse ==
    \A t \in Turns :
        (Ended(t) /\ turn[t].reply # None) => RowsOf(t) = BothRows(t, turn[t].reply[1])

\* C25: a turn whose agent run failed (429, other HTTP error, other
\* exception) has appended no row, neither the user row nor an assistant row.
C25_FailedRunAppendsNothing ==
    \A t \in Turns : Failed(t) => RowsOf(t) = <<>>

C25_Witness ==
    \E t \in Turns :
        /\ Ended(t)
        /\ turn[t].err = "exception"
        /\ turn[t].tool_saved # None
        /\ conversations = <<>>

\* C26: a failed agent run never leaves the handler other than by its normal
\* end: a 429 gives exactly one busy notice, every other failure exactly one
\* generic notice, nothing is sent before the notice, and the handler is then done.
C26_FailureGivesOneNotice ==
    \A t \in Turns : Failed(t) =>
        /\ turn[t].err \in RunFailures
        /\ turn[t].pc \in {"failed", "done"}
        /\ turn[t].pc = "failed" => turn[t].sent = <<>>
        /\ turn[t].pc = "done" =>
              turn[t].sent = IF turn[t].err = "http429"
                             THEN << Message("busy", BUSY_NOTICE) >>
                             ELSE << Message("generic", GENERIC_NOTICE) >>

C26_Witness ==
    /\ \E t \in Turns :
          Ended(t) /\ turn[t].err = "http429" /\ turn[t].sent = << Message("busy", BUSY_NOTICE) >>
    /\ \E t \in Turns :
          Ended(t) /\ turn[t].err = "http_other"
                   /\ turn[t].sent = << Message("generic", GENERIC_NOTICE) >>

MessageKinds == {"reply", "fallback", "busy", "generic"}

\* The turn is over and the user got a message: at least one, all of one
\* kind, none empty, and the fallback notice when the output was empty.
EndedWithMessage(t) ==
    /\ Ended(t)
    /\ turn[t].sent # <<>>
    /\ \E kind \in MessageKinds :
          \A i \in 1..Len(turn[t].sent) : turn[t].sent[i].kind = kind
    /\ \A i \in 1..Len(turn[t].sent) : turn[t].sent[i].text # <<>>
    /\ turn[t].reply = Some(<<>>) => turn[t].sent = << Message("fallback", FALLBACK_NOTICE) >>

\* C27: every turn of an authorized user eventually ends with at least one
\* outbound message and exactly one kind of it (reply chunks, fallback, busy
\* or generic notice); an empty output gives the fallback notice, never no
\* message and never an empty message.
C27_TurnEndsWithMessage ==
    \A t \in Turns : (turn[t].pc = "typing") ~> EndedWithMessage(t)

C27_Witness ==
    \E t \in Turns :
        /\ EndedWithMessage(t)
        /\ turn[t].typing
        /\ turn[t].reply = Some(<<>>)
        /\ turn[t].tool_saved # None

\* The turn is cut short: its run failed, or the process stopped under it.
CutShort(t) ==
    \/ Failed(t)
    \/ stopped /\ turn[t].pc \notin {"idle", "done"}

\* The stored record of the turn's user read back: it carries what the
\* turn's last tool call saved.
StoreHoldsMutation(t) ==
    /\ store[turn[t].user_id] # None
    /\ LET stored == UserProfile(turn[t].user_id, store[turn[t].user_id][1], 0, 0)
           mine == turn[t].tool_saved[1]
       IN /\ stored.media_preferences = mine.media_preferences
          /\ stored.reply_language = mine.reply_language
          /\ stored.confirmation_mode = mine.confirmation_mode
          /\ stored.notes = mine.notes
          /\ stored.name = mine.name
          /\ stored.created_at = mine.created_at

\* No other turn saved the profile of this user after turn t did.
LastWriter(t) == committer[turn[t].user_id] = t

OwnRows(rows, user_id) == SelectSeq(rows, LAMBDA r : r.user_id = user_id)

\* C29: a step of a turn for user a leaves the stored profile and the rows
\* of every other user as they were, and what the turn reads (the profile,
\* the history) comes from the record and the rows of a alone.
C29_NoInterferenceBetweenUsers ==
    [][\A t \in Turns : turn'[t] # turn[t] =>
          LET a == turn'[t].user_id
          IN /\ \A b \in Users \ {a} :
                   /\ store'[b] = store[b]
                   /\ OwnRows(conversations', b) = OwnRows(conversations, b)
             /\ turn[t].pc = "get_history" =>
                   turn'[t].history = OwnRows(conversations, a)
             /\ turn[t].pc = "get_profile" =>
                   /\ turn'[t].user_profile[1].user_id = a
                   /\ Truthy(store[a]) =>
                         turn'[t].user_profile = Some(UserProfile(a, store[a][1], now, now))
                   /\ ~Truthy(store[a]) =>
                         turn'[t].write # None /\ turn'[t].user_profile[1].notes = <<>>
    ]_vars

C29_Witness ==
    /\ turn[1].user_id = 1
    /\ turn[2].user_id = 2
    /\ Ended(1) /\ Ended(2)
    /\ turn[1].tool_saved # None /\ turn[2].tool_saved # None
    /\ store[1] # store[2]
    /\ Len(conversations) = 4
    /\ conversations[1].by = 1 /\ conversations[2].by = 2
    /\ conversations[3].by = 2 /\ conversations[4].by = 1
    /\ turn[1].history = <<>> /\ turn[2].history = <<>>

\* C30: the stored record of a user is, in every field, the whole record
\* passed to the save that committed last for that user: one record per
\* user, never a mix of two writers' fields.
C30_LastSaveWins ==
    \A u \in Users :
        /\ committer[u] = 0 => store[u] = None
        /\ committer[u] # 0 =>
              /\ turn[committer[u]].user_id = u
              /\ store[u] = turn[committer[u]].lastsave

\* Two overlapping turns of user 1 each saved a mutation; the later save
\* wrote its own stale copy and the earlier writer's movie quality is gone.
C30_Witness ==
    /\ turn[1].user_id = 1 /\ turn[2].user_id = 1
    /\ Ended(1) /\ Ended(2)
    /\ turn[1].tool_saved # None
    /\ turn[1].tool_saved[1].media_preferences.movie_quality = Some("4k")
    /\ turn[2].tool_saved # None
    /\ turn[2].tool_saved[1].reply_language = "Klingon"
    /\ committer[1] = 2
    /\ store[1] = turn[2].lastsave
    /\ store[1][1].reply_language = Some(JStr("Klingon"))
    /\ store[1][1].media_preferences[1].movie_quality = Some(JNull)

\* C31: once the process has stopped, the log holds of every turn either
\* both rows (user, then assistant) or none, never the user row alone.
C31_BothRowsOrNone ==
    stopped =>
        \A t \in Turns :
            \/ RowsOf(t) = <<>>
            \/ turn[t].reply # None /\ RowsOf(t) = BothRows(t, turn[t].reply[1])

\* C32: get_history with limit k >= 0 returns the last min(k, total) rows of
\* the user, oldest first, and no row of another user; without a limit all
\* rows of the user in insertion order; for a user without rows the empty list.
C32_LastRowsOldestFirst ==
    [][query' # query =>
          LET own == OwnRows(conversations, query'.user_id)
              total == Len(own)
              got == query'.result
          IN /\ conversations' = conversations
             /\ total = 0 => got = <<>>
             /\ query'.limit = None =>
                   /\ Len(got) = total
                   /\ \A j \in 1..total : got[j] = RoleContent(own[j])
             /\ (query'.limit # None /\ query'.limit[1] >= 0) =>
                   /\ Len(got) = Min(query'.limit[1], total)
                   /\ \A j \in 1..Len(got) :
                         got[j] = RoleContent(own[total - Len(got) + j])
    ]_vars

\* Two rows of user 1 with a row of user 2 between them; limit 1 returned
\* the newer one.
C32_Witness ==
    /\ query.user_id = 1
    /\ query.limit = Some(1)
    /\ Len(conversations) = 3
    /\ conversations[2].user_id = 2
    /\ Len(OwnRows(conversations, 1)) = 2
    /\ query.result = << RoleContent(conversations[3]) >>
    /\ conversations[1].content # conversations[3].content
    /\ conversations[2].content # conversations[3].content

\* The update of the turn came from a user outside the whitelist.
Unauthorized(t) ==
    turn[t].user_id # 0 /\ turn[t].user_id \notin allowed_telegram_ids

\* C33: a turn of a user outside the whitelist sends exactly one rejection
\* message and does nothing else: no typing indicator, no profile read or
\* created, no history read, no agent run, no row appended.
C33_UnauthorizedOnlyRejected ==
    \A t \in Turns : Unauthorized(t) =>
        /\ turn[t].pc \in {"reject", "done"}
        /\ turn[t].pc = "reject" => turn[t].sent = <<>>
        /\ turn[t].pc = "done" => turn[t].sent = << Message("rejection", REJECTION_MESSAGE) >>
        /\ ~turn[t].typing
        /\ turn[t].user_profile = None
        /\ turn[t].write = None
        /\ turn[t].lastsave = None
        /\ store[turn[t].user_id] = None
        /\ turn[t].history = <<>>
        /\ turn[t].tools = 0
        /\ turn[t].reply = None
        /\ turn[t].err = ""
        /\ RowsOf(t) = <<>>
        /\ OwnRows(conversations, turn[t].user_id) = <<>>

\* User 2 was rejected while a turn of user 1 wrote its profile and rows.
C33_Witness ==
    \E t, s \in Turns :
        /\ Unauthorized(t)
        /\ turn[t].user_id = 2
        /\ Ended(t)
        /\ turn[t].sent = << Message("rejection", REJECTION_MESSAGE) >>
        /\ turn[s].user_id = 1
        /\ Ended(s)
        /\ Len(conversations) = 2
        /\ store[1] # None

\* The last operation was a profile tool.
IsTool == last.op \in ToolNames

\* The stored record of the tool's user, read back.
StoredAfterTool == UserProfile(last.user_id, store[last.user_id][1], 0, 0)

\* The working profile carries the value the tool was called with.
HoldsNewValue(profile) ==
    CASE last.op = "set_movie_quality" ->
            profile.media_preferences.movie_quality = Some(last.arg)
      [] last.op = "set_series_quality" ->
            profile.media_preferences.series_quality = Some(last.arg)
      [] last.op = "set_reply_language" -> profile.reply_language = last.arg
      [] last.op = "set_confirmation_mode" -> profile.confirmation_mode = last.arg
      [] last.op = "update_user_note" ->
            profile.notes # <<>> /\ profile.notes[Len(profile.notes)] = last.arg

\* C34: after a profile tool, alone or after other tools, the working profile
\* holds the new value and the stored record equals the working profile in
\* every field but updated_at, which is the time of the write.
C34_StoredEqualsWorkingProfile ==
    IsTool =>
        /\ held # None
        /\ held[1].user_id = last.user_id
        /\ HoldsNewValue(held[1])
        /\ store[last.user_id] # None
        /\ SameButUpdatedAt(StoredAfterTool, held[1])
        /\ StoredAfterTool.updated_at = last.at

\* A note saved after a movie quality, at a time after the profile was made.
C34_Witness ==
    /\ last.op = "update_user_note"
    /\ held[1].notes = <<"n1">>
    /\ held[1].media_preferences.movie_quality = Some("4k")
    /\ StoredAfterTool.notes = <<"n1">>
    /\ StoredAfterTool.media_preferences.movie_quality = Some("4k")
    /\ StoredAfterTool.updated_at > held[1].updated_at
    /\ now > last.at

\* ProfileManager.get of the turn created the profile, and the turn still
\* holds what get returned (no tool has replaced it).
HoldsCreated(t) ==
    /\ turn[t].pc \in {"get_history", "run"}
    /\ turn[t].lastsave # None
    /\ turn[t].tools = 0

\* C35: two overlapping gets for the same unseen user return the same
\* reply_language and created_at, and these are the values of the stored record.
C35_NoDivergentFirstProfiles ==
    \A t1, t2 \in Turns :
        (t1 # t2 /\ HoldsCreated(t1) /\ HoldsCreated(t2)
                 /\ turn[t1].user_id = turn[t2].user_id) =>
            LET p1 == turn[t1].user_profile[1]
                p2 == turn[t2].user_profile[1]
                stored == UserProfile(p1.user_id, store[p1.user_id][1], 0, 0)
            IN /\ p1.reply_language = p2.reply_language
               /\ p1.created_at = p2.created_at
               /\ stored.reply_language = p1.reply_language
               /\ stored.created_at = p1.created_at

\* C36: a request call makes at least one attempt on the inner model and
\* ends with the response the inner model returned or the error the inner
\* model raised, whatever max_retries is; it never ends with the
\* RuntimeError that follows the loop.
C36_EndsWithInnerOutcome ==
    [][(rpc \in {"loop", "callback", "sleep"} /\ rpc' = "done") =>
          /\ Attempts' # <<>>
          /\ ret'.kind \in {"return", "raise"}
          /\ ret'.kind = "return" => Last(Attempts').out = "ok"
          /\ ret'.kind = "raise" =>
                /\ ret'.exc # "RuntimeError"
                /\ ret'.exc = Last(Attempts').out
    ]_vars

\* C37: the window applied to its own output returns that output, for every
\* n >= 0 and every message list, and the call leaves its input as it was.
C37_WindowIdempotent ==
    [][wpc' = "done" =>
          /\ processor(result', n') = result'
          /\ messages' = messages
          /\ n' = n
    ]_vars

\* Two pairs and an unpaired tool request: n = 1 dropped the older pair, and
\* a second pass keeps the three messages that are left.
C37_Witness ==
    /\ wpc = "done"
    /\ n = 1
    /\ Len(messages) = 5
    /\ Len(result) = 3
    /\ IsRequest(result[3]) /\ result[3].tool
    /\ result[1].id = 3
    /\ processor(result, n) = result

\* The step is one call of the profile tool `name`.
ToolStep(name) == ops' # ops /\ last'.op = name

Quiescent == \A t \in Turns : turn[t].pc \in {"idle", "done"}

\* C39: after turns handled one at a time to their end, the log of every
\* user has even length and alternates user row, assistant row, each user
\* row followed at once by the assistant row of the same turn.
C39_LogAlternates ==
    Quiescent =>
        \A u \in Users :
            LET own == OwnRows(conversations, u)
            IN /\ Len(own) % 2 = 0
               /\ \A k \in 1..(Len(own) \div 2) :
                     /\ own[2 * k - 1].role = "user"
                     /\ own[2 * k].role = "assistant"
                     /\ own[2 * k].by = own[2 * k - 1].by

\* Two successful turns of user 1, one after the other: four rows.
C39_Witness ==
    /\ Quiescent
    /\ Len(OwnRows(conversations, 1)) = 4
    /\ conversations[1].by = conversations[2].by
    /\ conversations[3].by = conversations[4].by
    /\ conversations[1].by # conversations[3].by
    /\ conversations[1].role = "user" /\ conversations[2].role = "assistant"
    /\ conversations[3].role = "user" /\ conversations[4].role = "assistant"

\* C40: when two overlapping turns of one user both succeed, the two rows
\* of each turn are next to each other in the log: no row of the other turn
\* lies between them.
C40_RowsOfTurnAdjacent ==
    \A t1, t2 \in Turns :
        (t1 # t2 /\ turn[t1].user_id = turn[t2].user_id
                 /\ Len(RowsOf(t1)) = 2 /\ Len(RowsOf(t2)) = 2) =>
            LET own == OwnRows(conversations, turn[t1].user_id)
            IN \A i \in 1..(Len(own) - 1) :
                  own[i].role = "user" => own[i + 1].by = own[i].by

(***************************************************************************)
(*                           specifications                                *)
(***************************************************************************)

InitW == InitWindow /\ RetryIdle /\ ProfileIdle /\ DriverIdle
NextWindow == Processor
SpecWindow == InitW /\ [][NextWindow]_vars

InitR == InitRetry /\ WindowIdle /\ ProfileIdle /\ DriverIdle
NextRetry ==
    \/ RequestStart
    \/ InnerReturns
    \/ InnerRaises
    \/ OnRetry
    \/ Sleep
    \/ LoopExit
    \/ Resolve
    \/ StreamStart
    \/ StreamInner
    \/ PropertyStart
    \/ PropertyReturn
    \/ NextCall
SpecRetry == InitR /\ [][NextRetry]_vars

InitP == InitProfile /\ WindowIdle /\ RetryIdle /\ DriverIdle
NextProfile ==
    \/ Get
    \/ set_movie_quality
    \/ set_series_quality
    \/ set_reply_language
    \/ set_confirmation_mode
    \/ update_user_note
    \/ Tick
SpecProfile == InitP /\ [][NextProfile]_vars

InitL == InitLoad /\ WindowIdle /\ RetryIdle /\ DriverIdle
NextLoad ==
    \/ Get
    \/ Save
    \/ Tick
SpecLoad == InitL /\ [][NextLoad]_vars

InitI == InitIdentity /\ WindowIdle /\ RetryIdle /\ DriverIdle
NextIdentity ==
    \/ Get
    \/ Save
    \/ set_movie_quality
    \/ set_series_quality
    \/ set_reply_language
    \/ set_confirmation_mode
    \/ update_user_note
    \/ Tick
SpecIdentity == InitI /\ [][NextIdentity]_vars

InitH == DriverIdle /\ ProfileIdle /\ WindowIdle /\ RetryIdle
NextHistory == SaveMessage \/ QueryHistory
SpecHistory == InitH /\ [][NextHistory]_vars

InitT == InitDriver /\ WindowIdle /\ RetryIdle
NextTurn ==
    \/ \E t \in Turns : Receive(t)
    \/ \E t \in Turns : Reject(t)
    \/ \E t \in Turns : SendTyping(t)
    \/ \E t \in Turns : GetProfileRead(t)
    \/ \E t \in Turns : GetProfileWrite(t)
    \/ \E t \in Turns : GetHistory(t)
    \/ \E t \in Turns : ToolCall(t)
    \/ \E t \in Turns : RunFails(t)
    \/ \E t \in Turns : NotifyFailure(t)
    \/ \E t \in Turns : RunReturns(t)
    \/ \E t \in Turns : SendFallback(t)
    \/ \E t \in Turns : SaveUserMessage(t)
    \/ \E t \in Turns : SaveAssistantMessage(t)
    \/ \E t \in Turns : SendChunk(t)
    \/ Stop
SpecTurn == InitT /\ [][NextTurn]_vars

\* Updates handled one at a time, each to its end.
NextSequential ==
    \/ \E t \in Turns : ReceiveNext(t)
    \/ \E t \in Turns : Reject(t)
    \/ \E t \in Turns : SendTyping(t)
    \/ \E t \in Turns : GetProfileRead(t)
    \/ \E t \in Turns : GetProfileWrite(t)
    \/ \E t \in Turns : GetHistory(t)
    \/ \E t \in Turns : ToolCall(t)
    \/ \E t \in Turns : RunFails(t)
    \/ \E t \in Turns : NotifyFailure(t)
    \/ \E t \in Turns : RunReturns(t)
    \/ \E t \in Turns : SendFallback(t)
    \/ \E t \in Turns : SaveUserMessage(t)
    \/ \E t \in Turns : SaveAssistantMessage(t)
    \/ \E t \in Turns : SendChunk(t)
SpecSequential == InitT /\ [][NextSequential]_vars

\* The turns while the process keeps running: the event loop resumes every
\* handler whose awaited call has completed.
Step(t) ==
    \/ Receive(t)
    \/ Reject(t)
    \/ SendTyping(t)
    \/ GetProfileRead(t)
    \/ GetProfileWrite(t)
    \/ GetHistory(t)
    \/ ToolCall(t)
    \/ RunFails(t)
    \/ NotifyFailure(t)
    \/ RunReturns(t)
    \/ SendFallback(t)
    \/ SaveUserMessage(t)
    \/ SaveAssistantMessage(t)
    \/ SendChunk(t)
NextRunning == \E t \in Turns : Step(t)
InitRunning == InitOneUpdate /\ WindowIdle /\ RetryIdle
SpecRunning == InitRunning /\ [][NextRunning]_vars /\ \A t \in Turns : WF_vars(Step(t))

====
